---- MODULE Spec2Model ----
(***************************************************************************)
(* BB84 quantum secure chat: the key lifecycle manager                     *)
(* (src/crypto/key_manager.py), the reconciliation algorithms and the      *)
(* local simulation (src/bb84/protocol.py, src/bb84/eavesdropper.py) and   *)
(* the interactive exchange coordinator (src/chat/manager.py).             *)
(*                                                                         *)
(* Conventions.  Python lists are sequences; list positions stay 0-based   *)
(* as in the code and on the wire, and are shifted by one only where a     *)
(* sequence is indexed.  Python's None is the empty tuple and a present    *)
(* value x is <<x>>.  A float that the code only ever compares is kept as  *)
(* the exact fraction <<numerator, denominator>>.                          *)
(***************************************************************************)
EXTENDS Integers, Sequences, FiniteSets, TLC

VARIABLES
    km,         \* a KeyManager driven call by call (SpecKey, SpecConsume)
    last,       \* outcome of the latest call made on km
    ops,        \* number of calls made on km so far
    thr,        \* the threads inside EncryptionKey.consume (SpecConsume)
    sim,        \* what the call of bb84_simulate returned or raised (SpecSim)
    eve,        \* the Eve instance handed to bb84_simulate
    pc,         \* per role: where the foreground thread of ChatManager.run is
    clr,        \* per role: the next statement of _clear_exchange_state
    ev,         \* per role: the threading.Event flags of the ChatManager
    rx,         \* per role: the _received_* fields set by the receive thread
    notified,   \* per role: the blocked Event.wait of the foreground was woken
    loc,        \* per role: the locals of the running exchange function
    outcome,    \* per role: how the latest exchange function ended
    entry,      \* per role: both key managers as they were when the running
                \* exchange function was entered (history, for the properties)
    send_km,    \* per role: send_key_manager
    recv_km,    \* per role: recv_key_manager
    net,        \* per role: the messages in flight to it, oldest first
    refreshes,  \* number of /refresh commands typed so far
    mgr_running,    \* ChatManager.running of each role
    rpc,        \* one ChatManager from main() to exit: where its foreground is (SpecRun)
    running,    \* ChatManager.running
    connected,  \* the connection still carries what network.send writes
    send_key_manager,   \* ChatManager.send_key_manager
    recv_key_manager,   \* ChatManager.recv_key_manager
    cleared,    \* the key managers on which cleanup() has called clear()
    typed,      \* number of lines typed at the chat prompt so far
    sock,       \* the frames written to the socket and not read yet (SpecRecv)
    sock_state, \* "alive", "broken" (fatal socket error) or "closed" (stop() was called)
    net_running,    \* Client.running / Server.running
    recv_loop,  \* "reading", or how _receive_loop ended
    delivered,  \* the frames passed to on_message, in order
    wire,       \* the latest message packed by pack_message and its bytes (SpecWire)
    sent,       \* per role: the calls of send_chat_message so far and what each did
                \* (history, for the properties)
    shown,      \* per role: what _handle_chat displayed for each MSG_CHAT, in order
    hist        \* per role: what its two threads did in the exchange function that
                \* is running or ran last (history, for the properties)

----------------------------------------------------------------------------
(* Bounds of the model *)

\* longest raw bit list enumerated exhaustively as set_key's argument
MaxRawLen == 1
\* number of calls made on the KeyManager in one run
MaxOps == 3
\* number of concurrent consume calls started in one run
MaxCalls == 2
\* largest num_photons given to bb84_simulate, without and with interception
MaxSimPhotons == 3
MaxEvePhotons == 2
\* photons of the long runs of bb84_simulate, and how many of them Eve
\* measures in the wrong basis
LongPhotons == 100
LongErrors == 3
\* photons of one interactive exchange (INTERACTIVE_NUM_PHOTONS: imported
\* from config.settings by src/chat/manager.py; the settings file at hand
\* does not set it)
INTERACTIVE_NUM_PHOTONS == 2
\* /refresh commands typed in one session, by either user
MaxRefresh == 1
\* lines typed at the chat prompt of one session
MaxTyped == 3
\* messages the peer writes to the socket in one session
MaxWritten == 3
\* longest list in a payload that is put on the wire
MaxItems == 2
\* calls of send_chat_message by one role
MaxChats == 2

(* Program constants *)

EXPANDED_KEY_BITS == 1024
\* KEY_ROTATION_THRESHOLD = 0.75, held in percent
KEY_ROTATION_THRESHOLD_PCT == 75
MIN_KEY_LENGTH == 32
\* ERROR_THRESHOLD = 0.10 and SAMPLE_FRACTION = 0.10, held in percent
ERROR_THRESHOLD_PCT == 10
SAMPLE_FRACTION_PCT == 10
RECTILINEAR == 0
DIAGONAL == 1
MSG_BB84_INIT == 16
MSG_BB84_PHOTONS == 17
MSG_BB84_BASES == 18
MSG_BB84_MATCHES == 19
MSG_BB84_COMPLETE == 22
MSG_KEY_ROTATE == 32
MSG_CHAT == 1
MSG_DISCONNECT == 254

----------------------------------------------------------------------------
(* Values *)

None == <<>>
Some(x) == <<x>>
Bit == {0, 1}

Max(a, b) == IF a >= b THEN a ELSE b
Min(a, b) == IF a <= b THEN a ELSE b

\* all bit lists of length 0..n
BitSeqs(n) == UNION {[1..k -> Bit] : k \in 0..n}

\* a float kept as a fraction
Frac(num, den) == <<num, den>>
FracZero == Frac(0, 1)
FracGE(f, g) == f[1] * g[2] >= g[1] * f[2]
\* >= where the code has >
FracGT_ge(f, g) == f[1] * g[2] >= g[1] * f[2]
FracGT(f, g) == f[1] * g[2] > g[1] * f[2]

----------------------------------------------------------------------------
(* src/crypto/key_manager.py: expand_key_bits                               *)
(*                                                                          *)
(* SHA-256 and HMAC-SHA256 are kept as deterministic mixing functions of    *)
(* the same arguments: the digest of the seed string keys every block, each *)
(* 32-byte block is the MAC of (previous block, 4-byte counter), and the    *)
(* bytes are unpacked most significant bit first.  What the model keeps of  *)
(* the hash is what the code relies on: the keystream is a function of the  *)
(* seed bits alone and its length is the requested length, whatever the     *)
(* length of the seed.                                                      *)

RECURSIVE SeedSum(_, _, _)
\* position-weighted sum of the seed string's characters lo..hi
SeedSum(seed_bits, lo, hi) ==
    IF lo > hi THEN 0
    ELSE IF lo = hi THEN (seed_bits[lo] + 1) * ((lo * lo + 3 * lo + 7) % 251)
    ELSE LET mid == (lo + hi) \div 2
         IN  (SeedSum(seed_bits, lo, mid) + SeedSum(seed_bits, mid + 1, hi)) % 65521

\* hashlib.sha256(seed_str.encode()).digest()
Sha256(seed_bits) ==
    (5381 + 131 * Len(seed_bits) + SeedSum(seed_bits, 1, Len(seed_bits))) % 65521

\* hmac.new(seed_bytes, prev + counter.to_bytes(4, 'big'), sha256).digest()
Hmac(seed_bytes, prev, counter) ==
    (seed_bytes * 31 + prev * 17 + counter * 7 + 11) % 65521

RECURSIVE HmacBlocks(_, _, _, _)
\* the blocks of iterations counter, counter + 1, ... up to `blocks` of them
HmacBlocks(seed_bytes, prev, counter, blocks) ==
    IF counter >= blocks THEN <<>>
    ELSE LET block == Hmac(seed_bytes, prev, counter)
         IN  <<block>> \o HmacBlocks(seed_bytes, block + 1, counter + 1, blocks)

\* byte j (0..31) of a block
BlockByte(block, j) == ((block + 1) * (2 * j + 3) + (block \div 7)) % 256

\* (byte >> i) & 1
ByteBit(byte, i) == (byte \div (2 ^ i)) % 2

expand_key_bits(seed_bits, length) ==
    LET blocks == HmacBlocks(Sha256(seed_bits), 0, 0, (length + 255) \div 256)
    IN  [p \in 1..length |->
            ByteBit(BlockByte(blocks[((p - 1) \div 256) + 1], ((p - 1) % 256) \div 8),
                    7 - ((p - 1) % 8))]

----------------------------------------------------------------------------
(* src/crypto/key_manager.py: EncryptionKey                                 *)
(*                                                                          *)
(* The keystream list `bits` is written twice in the program: by __init__   *)
(* (the expansion of the seed) and by KeyManager.clear (all zeros).  The    *)
(* key record holds which of the two it is (`zeroed`) and KeyBits gives the *)
(* list itself.                                                             *)

\* stamp stands for the two values drawn at construction, str(uuid.uuid4())[:8]
\* and datetime.now(): fresh for every key of a manager
EncryptionKey(key_bits, error_rate, stamp) ==
    [ id           |-> stamp,
      generated_at |-> stamp,
      seed_bits   |-> key_bits,
      seed_length |-> Len(key_bits),
      zeroed      |-> FALSE,
      length      |-> Len(expand_key_bits(key_bits, EXPANDED_KEY_BITS)),
      bits_used   |-> 0,
      error_rate  |-> error_rate ]

KeyBits(key) ==
    IF key.zeroed THEN [p \in 1..key.length |-> 0]
    ELSE expand_key_bits(key.seed_bits, EXPANDED_KEY_BITS)

\* Python slice bits[a:b] of 0-based positions a..b-1, clipped to the list
Slice(s, a, b) == SubSeq(s, a + 1, Min(b, Len(s)))

ConsumeRaises(key, num_bits) == key.bits_used + num_bits > key.length

ConsumeSlice_off(key, num_bits) ==
    Slice(KeyBits(key), key.bits_used + 1, key.bits_used + 1 + num_bits)

ConsumeSlice(key, num_bits) ==
    Slice(KeyBits(key), key.bits_used, key.bits_used + num_bits)

ConsumeAdvance(key, num_bits) ==
    [key EXCEPT !.bits_used = key.bits_used + num_bits]

remaining(key) == key.length - key.bits_used

usage_percentage(key) ==
    IF key.length = 0 THEN Frac(100, 1)
    ELSE Frac(key.bits_used * 100, key.length)

key_needs_rotation_gt(key) ==
    FracGT(usage_percentage(key), Frac(KEY_ROTATION_THRESHOLD_PCT, 1))

key_needs_rotation(key) ==
    FracGE(usage_percentage(key), Frac(KEY_ROTATION_THRESHOLD_PCT, 1))

----------------------------------------------------------------------------
(* src/crypto/key_manager.py: KeyManager *)

KeyManager ==
    [ current_key      |-> None,
      key_history      |-> <<>>,
      keys_generated   |-> 0,
      keys_compromised |-> 0 ]

HistoryEntry_bits(key) ==
    [ id           |-> key.id,
      generated_at |-> key.generated_at,
      length       |-> key.length,
      bits_used    |-> key.bits_used,
      error_rate   |-> key.error_rate,
      seed_bits    |-> key.seed_bits ]

HistoryEntry(key) ==
    [ id           |-> key.id,
      generated_at |-> key.generated_at,
      length     |-> key.length,
      bits_used  |-> key.bits_used,
      error_rate |-> key.error_rate ]

set_key(m, key_bits, error_rate) ==
    [ m EXCEPT
        !.key_history    = IF m.current_key # None
                           THEN Append(@, HistoryEntry(m.current_key[1]))
                           ELSE @,
        !.current_key    = Some(EncryptionKey(key_bits, error_rate,
                                              m.keys_generated + 1)),
        !.keys_generated = @ + 1 ]

get_key(m) == m.current_key

needs_rotation(m) ==
    IF m.current_key = None THEN TRUE
    ELSE key_needs_rotation(m.current_key[1])

mark_compromised_keep(m) ==
    [m EXCEPT !.keys_compromised = @ + 1]

mark_compromised(m) ==
    [m EXCEPT !.keys_compromised = @ + 1, !.current_key = None]

\* `self.current_key.bits = [0] * len(self.current_key.bits)`: the key object
\* as clear leaves it
ZeroedBits(key) == [key EXCEPT !.zeroed = TRUE]

clear(m) ==
    IF m.current_key # None THEN [m EXCEPT !.current_key = None] ELSE m

\* the key object that an operation took out of the manager, as the operation
\* left it: a reference obtained from get_key() earlier still reaches it
ReleasedByClear(m) ==
    IF m.current_key # None THEN Some(ZeroedBits(m.current_key[1])) ELSE None

ReleasedUntouched(m) == m.current_key

----------------------------------------------------------------------------
(* src/crypto/utils.py, src/crypto/encryption.py                            *)
(*                                                                          *)
(* A str is the list of the code points of its characters (ord).  A         *)
(* hexadecimal string is the list of the codes of its digits.               *)

\* format(ord(char), '08b'): the binary digits, left-padded with zeros to 8;
\* a code point above 255 has more than 8 digits
CharBits(code) ==
    LET RECURSIVE Binary(_)
        Binary(n) == IF n < 2 THEN <<n>> ELSE Binary(n \div 2) \o <<n % 2>>
        digits == Binary(code)
    IN  [p \in 1..(8 - Len(digits)) |-> 0] \o digits

RECURSIVE text_to_binary(_)
text_to_binary(text) ==
    IF Len(text) = 0 THEN <<>>
    ELSE IF Len(text) = 1 THEN CharBits(text[1])
    ELSE LET half == Len(text) \div 2
         IN  text_to_binary(SubSeq(text, 1, half))
             \o text_to_binary(SubSeq(text, half + 1, Len(text)))

\* whole groups of 8 bits, most significant bit first; a shorter last group is dropped
binary_to_text(bits) ==
    [k \in 1..(Len(bits) \div 8) |->
        LET b(j) == bits[8 * (k - 1) + j]
        IN  128 * b(1) + 64 * b(2) + 32 * b(3) + 16 * b(4) + 8 * b(5) + 4 * b(6) + 2 * b(7) + b(8)]

\* groups of 4 bits, the last one padded with zeros, each written format(value, 'x')
binary_to_hex(bits) ==
    [k \in 1..((Len(bits) + 3) \div 4) |->
        LET b(j) == IF 4 * (k - 1) + j <= Len(bits) THEN bits[4 * (k - 1) + j] ELSE 0
            value == 8 * b(1) + 4 * b(2) + 2 * b(3) + b(4)
        IN  IF value < 10 THEN 48 + value ELSE 87 + value]

\* int(ch, 16) then format(value, '04b')
hex_to_binary(hex_str) ==
    [p \in 1..(4 * Len(hex_str)) |->
        LET ch == hex_str[((p - 1) \div 4) + 1]
            value == IF ch <= 57 THEN ch - 48 ELSE ch - 87
        IN  (value \div (2 ^ (3 - ((p - 1) % 4)))) % 2]

\* [d ^ k for d, k in zip(data_bits, key_bits)]
xor_bits_or(data_bits, key_bits) ==
    [p \in 1..Min(Len(data_bits), Len(key_bits)) |-> Max(data_bits[p], key_bits[p])]

xor_bits(data_bits, key_bits) ==
    [p \in 1..Min(Len(data_bits), Len(key_bits)) |-> (data_bits[p] + key_bits[p]) % 2]

\* KeyManager.consume_bits: what it returns (None when it raises
\* KeyExhaustedError) and the manager after the call
consume_bits(m, num_bits) ==
    IF m.current_key = None \/ ConsumeRaises(m.current_key[1], num_bits)
    THEN [ret |-> None, after |-> m]
    ELSE [ret |-> Some(ConsumeSlice(m.current_key[1], num_bits)),
          after |-> [m EXCEPT !.current_key = Some(ConsumeAdvance(m.current_key[1], num_bits))]]

\* encrypt_message: raised, or the ciphertext and details['bits_used']
encrypt_message(message, key_manager) ==
    LET message_bits == text_to_binary(message)
        num_bits == Len(message_bits)
        taken == consume_bits(key_manager, num_bits)
    IN  IF taken.ret = None
        THEN [raised |-> TRUE, ciphertext |-> <<>>, bits_used |-> 0, after |-> key_manager]
        ELSE [raised |-> FALSE,
              ciphertext |-> binary_to_hex(xor_bits(message_bits, taken.ret[1])),
              bits_used |-> num_bits,
              after |-> taken.after]

\* decrypt_message: raised, or the plaintext
decrypt_message(ciphertext_hex, key_manager) ==
    LET cipher_bits == hex_to_binary(ciphertext_hex)
        num_bits == Len(cipher_bits)
        taken == consume_bits(key_manager, num_bits)
    IN  IF taken.ret = None
        THEN [raised |-> TRUE, plaintext |-> <<>>, bits_used |-> 0, after |-> key_manager]
        ELSE [raised |-> FALSE,
              plaintext |-> binary_to_text(xor_bits(cipher_bits, taken.ret[1])),
              bits_used |-> num_bits,
              after |-> taken.after]

----------------------------------------------------------------------------
(* Calls on one KeyManager, one after the other (SpecKey) *)

\* the raw bit lists of the unit tests, besides the short ones
TestKeys ==
    { <<1, 0, 1>>, <<1, 0, 1, 1, 0, 0, 1, 0>>, [i \in 1..100 |-> 1] }

RawKeys == BitSeqs(MaxRawLen) \cup TestKeys

\* the bit counts asked of consume: n >= 0 always (a list length)
Amounts == {0, 1, 3, 75, 768, EXPANDED_KEY_BITS}

NoCall ==
    [op |-> "none", n |-> 0, raised |-> FALSE, ret |-> <<>>, before |-> None,
     released |-> None]

Threads == {1, 2}

NoThread == [pc |-> "idle", n |-> 0, tmp |-> 0, ret |-> None, raised |-> FALSE]

Idle == \A t \in Threads : thr[t].pc = "idle"

KmSetKey(key_bits) ==
    /\ Idle
    /\ ops < MaxOps
    /\ km' = set_key(km, key_bits, FracZero)
    /\ last' = [NoCall EXCEPT !.op = "set_key", !.n = Len(key_bits),
                              !.before = km.current_key,
                              !.released = ReleasedUntouched(km)]
    /\ ops' = ops + 1
    /\ UNCHANGED thr

\* KeyManager.consume_bits, and EncryptionKey.consume run to completion
KmConsumeBits(num_bits) ==
    /\ Idle
    /\ ops < MaxOps
    /\ ops' = ops + 1
    /\ UNCHANGED thr
    /\ IF km.current_key = None
       THEN /\ last' = [NoCall EXCEPT !.op = "consume", !.n = num_bits,
                                      !.raised = TRUE]
            /\ km' = km
       ELSE LET key == km.current_key[1] IN
            IF ConsumeRaises(key, num_bits)
            THEN /\ last' = [NoCall EXCEPT !.op = "consume", !.n = num_bits,
                                           !.raised = TRUE,
                                           !.before = km.current_key]
                 /\ km' = km
            ELSE /\ last' = [NoCall EXCEPT !.op = "consume", !.n = num_bits,
                                           !.ret = ConsumeSlice(key, num_bits),
                                           !.before = km.current_key]
                 /\ km' = [km EXCEPT !.current_key =
                                        Some(ConsumeAdvance(key, num_bits))]

KmMarkCompromised ==
    /\ Idle
    /\ ops < MaxOps
    /\ km' = mark_compromised(km)
    /\ last' = [NoCall EXCEPT !.op = "mark_compromised", !.before = km.current_key,
                              !.released = ReleasedUntouched(km)]
    /\ ops' = ops + 1
    /\ UNCHANGED thr

KmClear ==
    /\ Idle
    /\ ops < MaxOps
    /\ km' = clear(km)
    /\ last' = [NoCall EXCEPT !.op = "clear", !.before = km.current_key,
                              !.released = ReleasedByClear(km)]
    /\ ops' = ops + 1
    /\ UNCHANGED thr

keyVars == <<km, last, ops, thr>>

----------------------------------------------------------------------------
(* Two threads inside KeyManager.consume_bits / EncryptionKey.consume       *)
(* (SpecConsume).  Neither method takes a lock, so the interpreter may      *)
(* switch threads between the statements of consume and between the load    *)
(* and the store of `self.bits_used += num_bits`.                           *)

ConcSetKey(key_bits) ==
    /\ Idle
    /\ km.current_key = None
    /\ km' = set_key(km, key_bits, FracZero)
    /\ UNCHANGED <<last, ops, thr>>

\* consume_bits(num_bits) is called: `if not self.current_key: raise`
ConsumeCall(t, num_bits) ==
    /\ thr[t].pc = "idle"
    /\ ops < MaxCalls
    /\ ops' = ops + 1
    /\ thr' = [thr EXCEPT ![t] =
                 IF km.current_key = None
                 THEN [NoThread EXCEPT !.n = num_bits, !.raised = TRUE]
                 ELSE [NoThread EXCEPT !.pc = "check", !.n = num_bits]]
    /\ UNCHANGED <<km, last>>

\* `if self.bits_used + num_bits > self.length: raise KeyExhaustedError`
ConsumeCheck(t) ==
    /\ thr[t].pc = "check"
    /\ thr' = [thr EXCEPT ![t] =
                 IF ConsumeRaises(km.current_key[1], thr[t].n)
                 THEN [@ EXCEPT !.pc = "idle", !.raised = TRUE]
                 ELSE [@ EXCEPT !.pc = "slice"]]
    /\ UNCHANGED <<km, last, ops>>

\* `consumed = self.bits[self.bits_used:self.bits_used + num_bits]`:
\* kept as <<first position, number of bits>> of the slice
ConsumeTake(t) ==
    /\ thr[t].pc = "slice"
    /\ LET key == km.current_key[1]
       IN  thr' = [thr EXCEPT ![t] =
                    [@ EXCEPT !.pc = "load",
                              !.ret = Some(<<key.bits_used,
                                             Len(ConsumeSlice(key, thr[t].n))>>)]]
    /\ UNCHANGED <<km, last, ops>>

\* `self.bits_used += num_bits`: the load
ConsumeLoad(t) ==
    /\ thr[t].pc = "load"
    /\ thr' = [thr EXCEPT ![t] =
                 [@ EXCEPT !.pc = "store", !.tmp = km.current_key[1].bits_used]]
    /\ UNCHANGED <<km, last, ops>>

\* `self.bits_used += num_bits`: the store, and `return consumed`
ConsumeStore(t) ==
    /\ thr[t].pc = "store"
    /\ km' = [km EXCEPT !.current_key =
                 Some([km.current_key[1] EXCEPT !.bits_used = thr[t].tmp + thr[t].n])]
    /\ thr' = [thr EXCEPT ![t] = [@ EXCEPT !.pc = "idle"]]
    /\ UNCHANGED <<last, ops>>

----------------------------------------------------------------------------
(* src/bb84/photon.py, src/bb84/protocol.py: primitives and reconciliation  *)
(*                                                                          *)
(* The random draws of the code (secrets.randbelow, random.randint,         *)
(* random.sample) are arguments here, and the callers draw them.            *)

\* a table with the two diagonal angles exchanged
ANGLES_swapped(bit, basis) ==
    IF basis = RECTILINEAR THEN (IF bit = 0 THEN 0 ELSE 90)
    ELSE (IF bit = 0 THEN 135 ELSE 45)

ANGLES(bit, basis) ==
    IF basis = RECTILINEAR THEN (IF bit = 0 THEN 0 ELSE 90)
    ELSE (IF bit = 0 THEN 45 ELSE 135)

Photon(bit, basis, angle) == [bit |-> bit, basis |-> basis, angle |-> angle]

encode_photon(bit, basis) == Photon(bit, basis, ANGLES(bit, basis))

\* zip stops at the shorter list
encode_photons(bits, bases) ==
    [i \in 1..Min(Len(bits), Len(bases)) |-> encode_photon(bits[i], bases[i])]

measure_photon_swapped(photon, measurement_basis, coin) ==
    IF photon.basis # measurement_basis THEN photon.bit ELSE coin

\* coin is the value of random.randint(0, 1), read on a basis mismatch only
measure_photon(photon, measurement_basis, coin) ==
    IF photon.basis = measurement_basis THEN photon.bit ELSE coin

measure_photons(photons, bases, coins) ==
    [i \in 1..Min(Len(photons), Len(bases)) |->
        measure_photon(photons[i], bases[i], coins[i])]

RECURSIVE Ascending(_)
\* the members of a finite set of integers, in ascending order
Ascending(S) ==
    IF S = {} THEN <<>>
    ELSE LET m == CHOOSE x \in S : \A y \in S : x <= y
         IN  <<m>> \o Ascending(S \ {m})

\* the positions where the bases differ
find_matching_positions_differ(alice_bases, bob_bases) ==
    Ascending({i \in 0..(Len(alice_bases) - 1) : alice_bases[i + 1] # bob_bases[i + 1]})

find_matching_positions(alice_bases, bob_bases) ==
    Ascending({i \in 0..(Len(alice_bases) - 1) : alice_bases[i + 1] = bob_bases[i + 1]})

extract_key_bits(bits, positions) ==
    [k \in 1..Len(positions) |-> bits[positions[k] + 1]]

\* a sample size without the lower bound of 1
SampleChoices_floor(n) ==
    LET sample_size == (n * SAMPLE_FRACTION_PCT) \div 100
    IN  {S \in SUBSET (0..(n - 1)) : Cardinality(S) = Min(sample_size, n)}

\* the sets random.sample(range(n), min(sample_size, n)) can return
SampleChoices(n) ==
    LET sample_size == Max(1, (n * SAMPLE_FRACTION_PCT) \div 100)
    IN  {S \in SUBSET (0..(n - 1)) : Cardinality(S) = Min(sample_size, n)}

RECURSIVE CountDiff(_, _)
\* sum(a != b for a, b in zip(x, y)) for lists of one length
CountDiff(x, y) ==
    IF x = <<>> THEN 0
    ELSE (IF Head(x) # Head(y) THEN 1 ELSE 0) + CountDiff(Tail(x), Tail(y))

\* sampled is the drawn set of positions
check_errors(alice_key, bob_key, sampled) ==
    LET sample_positions == Ascending(sampled)
        alice_sample == extract_key_bits(alice_key, sample_positions)
        bob_sample   == extract_key_bits(bob_key, sample_positions)
        errors       == CountDiff(alice_sample, bob_sample)
    IN  [ error_rate       |-> IF sample_positions # <<>>
                               THEN Frac(errors, Len(sample_positions))
                               ELSE FracZero,
          sample_positions |-> sample_positions,
          alice_sample     |-> alice_sample,
          bob_sample       |-> bob_sample ]

RECURSIVE KeepUnsampled(_, _, _)
KeepUnsampled(key, i, sample_set) ==
    IF i > Len(key) THEN <<>>
    ELSE (IF (i - 1) \in sample_set THEN <<>> ELSE <<key[i]>>)
            \o KeepUnsampled(key, i + 1, sample_set)

\* the sampled bits stay in the key
remove_sample_bits_reuse(key, sample_positions) == key

remove_sample_bits(key, sample_positions) ==
    KeepUnsampled(key, 1, {sample_positions[k] : k \in 1..Len(sample_positions)})

----------------------------------------------------------------------------
(* src/bb84/eavesdropper.py: Eve *)

Eve == [intercepted_count |-> 0, last_bases |-> <<>>, last_bits |-> <<>>]

\* eve_bases is what generate_random_bases(n) returned, coins the mismatch coins
InterceptBits(photons, eve_bases, coins) ==
    [i \in 1..Len(photons) |-> measure_photon(photons[i], eve_bases[i], coins[i])]

InterceptPhotons_same(photons, eve_bases, coins) == photons

InterceptPhotons(photons, eve_bases, coins) ==
    [i \in 1..Len(photons) |->
        encode_photon(InterceptBits(photons, eve_bases, coins)[i], eve_bases[i])]

InterceptEve(e, photons, eve_bases, coins) ==
    [ intercepted_count |-> e.intercepted_count + Len(photons),
      last_bases        |-> eve_bases,
      last_bits         |-> InterceptBits(photons, eve_bases, coins) ]

----------------------------------------------------------------------------
(* src/bb84/protocol.py: bb84_simulate (SpecSim) *)

\* eve_draw is None when Eve does not intercept, else <<[bases, coins]>>
SimResult(num_photons, eve_intercept, alice_bits, alice_bases, eve_draw, bob_bases, bob_coins, sampled) ==
    LET photons     == encode_photons(alice_bits, alice_bases)
        transmitted == IF eve_draw = None THEN photons
                       ELSE InterceptPhotons(photons, eve_draw[1].bases, eve_draw[1].coins)
        bob_bits    == measure_photons(transmitted, bob_bases, bob_coins)
        matching_positions == find_matching_positions(alice_bases, bob_bases)
        alice_raw_key == extract_key_bits(alice_bits, matching_positions)
        bob_raw_key   == extract_key_bits(bob_bits, matching_positions)
        checked       == check_errors(alice_raw_key, bob_raw_key, sampled)
        alice_final_key == remove_sample_bits(alice_raw_key, checked.sample_positions)
        bob_final_key   == remove_sample_bits(bob_raw_key, checked.sample_positions)
    IN  [ raised                |-> FALSE,
          alice_bits            |-> alice_bits,
          alice_bases           |-> alice_bases,
          photons               |-> photons,
          eve_active            |-> eve_intercept,
          eve_bits              |-> IF eve_draw = None THEN None
                                    ELSE Some(InterceptBits(photons, eve_draw[1].bases,
                                                            eve_draw[1].coins)),
          eve_bases             |-> IF eve_draw = None THEN None
                                    ELSE Some(eve_draw[1].bases),
          transmitted_photons   |-> transmitted,
          bob_bases             |-> bob_bases,
          bob_bits              |-> bob_bits,
          matching_positions    |-> matching_positions,
          match_rate            |-> Frac(Len(matching_positions), num_photons),
          alice_raw_key         |-> alice_raw_key,
          bob_raw_key           |-> bob_raw_key,
          error_rate            |-> checked.error_rate,
          sample_positions      |-> checked.sample_positions,
          alice_sample          |-> checked.alice_sample,
          bob_sample            |-> checked.bob_sample,
          eavesdropper_detected |-> FracGT(checked.error_rate,
                                           Frac(ERROR_THRESHOLD_PCT, 100)),
          alice_final_key       |-> alice_final_key,
          bob_final_key         |-> bob_final_key,
          final_key_length      |-> Len(alice_final_key),
          key_too_short         |-> Len(alice_final_key) < MIN_KEY_LENGTH ]

\* one call bb84_simulate(num_photons, eve_intercept, eve_instance); Eve
\* intercepts when `eve_intercept and eve_instance`
BB84Simulate(num_photons, eve_intercept, with_instance) ==
    /\ sim = None
    /\ num_photons <= (IF eve_intercept /\ with_instance THEN MaxEvePhotons
                                                         ELSE MaxSimPhotons)
    /\ \E alice_bits \in [1..num_photons -> Bit],
          alice_bases \in [1..num_photons -> {RECTILINEAR, DIAGONAL}],
          bob_bases \in [1..num_photons -> {RECTILINEAR, DIAGONAL}],
          bob_coins \in [1..num_photons -> Bit] :
        \E eve_draw \in IF eve_intercept /\ with_instance
                         THEN {Some([bases |-> b, coins |-> c]) :
                                 b \in [1..num_photons -> {RECTILINEAR, DIAGONAL}],
                                 c \in [1..num_photons -> Bit]}
                         ELSE {None} :
            /\ eve' = IF eve_draw = None THEN eve
                      ELSE InterceptEve(eve, encode_photons(alice_bits, alice_bases),
                                        eve_draw[1].bases, eve_draw[1].coins)
            /\ IF num_photons = 0
               THEN \* len(matching_positions) / num_photons: ZeroDivisionError
                    sim' = Some([raised |-> TRUE])
               ELSE \E sampled \in SampleChoices(
                           Len(find_matching_positions(alice_bases, bob_bases))) :
                        sim' = Some(SimResult(num_photons, eve_intercept, alice_bits,
                                              alice_bases, eve_draw, bob_bases,
                                              bob_coins, sampled))

\* the draws of runs too long to enumerate: LongPhotons photons, Bob's bases
\* equal to Alice's everywhere, Eve measuring the first LongErrors photons in
\* the other basis, so that Bob's bit there is his coin (flipped at the
\* positions of `wrong`); and the lists of test_find_matching_positions
LongRuns ==
    LET alice_bases == [i \in 1..LongPhotons |-> i % 2]
        alice_bits  == [i \in 1..LongPhotons |-> (i \div 2) % 2]
    IN  { [ alice_bits  |-> alice_bits,
            alice_bases |-> alice_bases,
            eve_draw    |-> Some([ bases |-> [i \in 1..LongPhotons |->
                                                IF i <= LongErrors THEN 1 - alice_bases[i]
                                                                   ELSE alice_bases[i]],
                                   coins |-> alice_bits ]),
            bob_bases   |-> alice_bases,
            bob_coins   |-> [i \in 1..LongPhotons |->
                               IF i \in wrong THEN 1 - alice_bits[i] ELSE alice_bits[i]] ]
          : wrong \in SUBSET (1..LongErrors) }
        \cup
        { [ alice_bits  |-> <<1, 0, 1, 1, 0>>,
            alice_bases |-> <<0, 1, 0, 1, 1>>,
            eve_draw    |-> None,
            bob_bases   |-> <<0, 0, 0, 1, 1>>,
            bob_coins   |-> <<0, 0, 0, 0, 0>> ] }

\* one call of bb84_simulate with the draws of a long run; the sample is a
\* run of consecutive positions among those random.sample can return
BB84SimulateLong ==
    /\ sim = None
    /\ \E run \in LongRuns :
        LET num_photons == Len(run.alice_bits)
            n == Len(find_matching_positions(run.alice_bases, run.bob_bases))
        IN  \E sampled \in {S \in {first..(first + size - 1) :
                                      first \in 0..LongErrors, size \in 1..num_photons} :
                                S \in SampleChoices(n)} :
                /\ eve' = IF run.eve_draw = None THEN eve
                          ELSE InterceptEve(eve, encode_photons(run.alice_bits, run.alice_bases),
                                            run.eve_draw[1].bases, run.eve_draw[1].coins)
                /\ sim' = Some(SimResult(num_photons, run.eve_draw # None, run.alice_bits,
                                         run.alice_bases, run.eve_draw, run.bob_bases,
                                         run.bob_coins, sampled))

simVars == <<sim, eve>>

----------------------------------------------------------------------------
(* src/chat/manager.py: ChatManager, the interactive exchange (Spec)        *)
(*                                                                          *)
(* Each role runs two threads: the foreground (run, the exchange function,  *)
(* the chat loop) and the receive thread, which calls                       *)
(* handle_received_message once per inbound message.  The handler runs      *)
(* under self._lock and is one step; the foreground never takes the lock,   *)
(* so each of its accesses to the shared fields is a step of its own.       *)
(* Statements that touch only locals are folded into the step that follows  *)
(* the shared read they depend on.                                          *)

Roles == {"Alice", "Bob"}
Other(role) == IF role = "Alice" THEN "Bob" ELSE "Alice"
Bases == {RECTILINEAR, DIAGONAL}

NoEvents ==
    [ key_ready        |-> FALSE,
      init_received    |-> FALSE,
      photons_received |-> FALSE,
      bases_received   |-> FALSE,
      matches_received |-> FALSE ]

NoReceived ==
    [ photons_data |-> None,
      bases        |-> None,
      matches      |-> None,
      key          |-> None,
      error_rate   |-> None ]

NoLocals == [none |-> TRUE]

Msg(type, payload) == [type |-> type, payload |-> payload]

\* network.send(msg_type, payload): the message joins the peer's inbound
\* stream; on a lost connection sendall raises and nothing is sent (what the
\* exception does next is the caller's part)
Send(role, type, payload) ==
    net' = IF connected THEN [net EXCEPT ![Other(role)] = Append(@, Msg(type, payload))]
                        ELSE net

\* Photon.to_dict / Photon.from_dict
to_dict(photon) == [bit |-> photon.bit, basis |-> photon.basis, angle |-> photon.angle]
from_dict(data) == Photon(data.bit, data.basis, data.angle)

\* the exchange function returns to the chat loop
Return(role, how) ==
    /\ pc' = [pc EXCEPT ![role] = "chat"]
    /\ loc' = [loc EXCEPT ![role] = NoLocals]
    /\ outcome' = [outcome EXCEPT ![role] = how]
    /\ entry' = [entry EXCEPT ![role] = None]

\* an exception leaves run(): main reports it and stops the network
Crash(role) ==
    /\ pc' = [pc EXCEPT ![role] = "crashed"]
    /\ loc' = [loc EXCEPT ![role] = NoLocals]
    /\ outcome' = [outcome EXCEPT ![role] = "crashed"]
    /\ entry' = [entry EXCEPT ![role] = None]

\* run(): start_receiving has been called; the role's exchange function starts
StartExchange(role) ==
    /\ pc[role] = "start"
    /\ pc' = [pc EXCEPT ![role] = "clear"]
    /\ clr' = [clr EXCEPT ![role] = 1]
    /\ outcome' = [outcome EXCEPT ![role] = "running"]
    /\ entry' = [entry EXCEPT ![role] = Some(<<send_km[role], recv_km[role]>>)]
    /\ UNCHANGED <<ev, rx, notified, loc, send_km, recv_km, net, refreshes>>

\* process_command('/refresh'): announce, then run the exchange function
Refresh(role) ==
    /\ pc[role] = "chat"
    /\ refreshes < MaxRefresh
    /\ refreshes' = refreshes + 1
    /\ Send(role, MSG_KEY_ROTATE, [none |-> TRUE])
    /\ pc' = [pc EXCEPT ![role] = "clear"]
    /\ clr' = [clr EXCEPT ![role] = 1]
    /\ outcome' = [outcome EXCEPT ![role] = "running"]
    /\ entry' = [entry EXCEPT ![role] = Some(<<send_km[role], recv_km[role]>>)]
    /\ UNCHANGED <<ev, rx, notified, loc, send_km, recv_km>>

\* statement k of _clear_exchange_state applied to the fields
ClearedEvents(e, k) ==
    CASE k = 1 -> [e EXCEPT !.key_ready = FALSE]
      [] k = 2 -> [e EXCEPT !.init_received = FALSE]
      [] k = 3 -> [e EXCEPT !.photons_received = FALSE]
      [] k = 4 -> [e EXCEPT !.bases_received = FALSE]
      [] k = 5 -> [e EXCEPT !.matches_received = FALSE]
      [] OTHER -> e

ClearedReceived(r, k) ==
    CASE k = 6  -> [r EXCEPT !.photons_data = None]
      [] k = 7  -> [r EXCEPT !.bases = None]
      [] k = 8  -> [r EXCEPT !.matches = None]
      [] k = 9  -> [r EXCEPT !.key = None]
      [] k = 10 -> [r EXCEPT !.error_rate = None]
      [] OTHER  -> r

\* the foreground runs one statement of _clear_exchange_state
ClearStep(role) ==
    /\ pc[role] = "clear"
    /\ ev' = [ev EXCEPT ![role] = ClearedEvents(@, clr[role])]
    /\ rx' = [rx EXCEPT ![role] = ClearedReceived(@, clr[role])]
    /\ IF clr[role] < 10
       THEN /\ clr' = [clr EXCEPT ![role] = @ + 1]
            /\ UNCHANGED <<pc, notified>>
       ELSE /\ clr' = [clr EXCEPT ![role] = 0]
            /\ pc' = [pc EXCEPT ![role] =
                        IF role = "Alice" THEN "send_init" ELSE "wait_photons"]
            /\ notified' = [notified EXCEPT ![role] = FALSE]
    /\ UNCHANGED <<loc, outcome, entry, send_km, recv_km, net, refreshes>>

(* interactive_key_exchange_alice *)

\* the send is inside try/except: pass
AliceSendInit ==
    /\ pc["Alice"] = "send_init"
    /\ Send("Alice", MSG_BB84_INIT, [num_photons |-> INTERACTIVE_NUM_PHOTONS])
    /\ pc' = [pc EXCEPT !["Alice"] = "prompt"]
    /\ UNCHANGED <<clr, ev, rx, notified, loc, outcome, entry, send_km, recv_km, refreshes>>

\* _prompt_bits and _prompt_bases return the typed lists; the bases are parsed
\* and the photons encoded
AlicePrompt(alice_bits, alice_bases) ==
    /\ pc["Alice"] = "prompt"
    /\ loc' = [loc EXCEPT !["Alice"] =
                 [ alice_bits  |-> alice_bits,
                   alice_bases |-> alice_bases,
                   photons     |-> encode_photons(alice_bits, alice_bases) ]]
    /\ pc' = [pc EXCEPT !["Alice"] = "send_photons"]
    /\ UNCHANGED <<clr, ev, rx, notified, outcome, entry, send_km, recv_km, net, refreshes>>

\* Ctrl+C at a prompt: the prompt returns None and the function returns
AlicePromptCancel ==
    /\ pc["Alice"] = "prompt"
    /\ Return("Alice", "cancelled")
    /\ UNCHANGED <<clr, ev, rx, notified, send_km, recv_km, net, refreshes>>

\* the send is inside try/except: "Failed to send photons", return
AliceSendPhotons ==
    /\ pc["Alice"] = "send_photons"
    /\ Send("Alice", MSG_BB84_PHOTONS,
            [photons |-> [i \in 1..Len(loc["Alice"].photons) |->
                             to_dict(loc["Alice"].photons[i])]])
    /\ IF connected
       THEN /\ pc' = [pc EXCEPT !["Alice"] = "wait_bases"]
            /\ notified' = [notified EXCEPT !["Alice"] = FALSE]
            /\ UNCHANGED <<loc, outcome, entry>>
       ELSE /\ Return("Alice", "send_failed")
            /\ UNCHANGED notified
    /\ UNCHANGED <<clr, ev, rx, send_km, recv_km, refreshes>>

\* self._bases_received.wait(timeout=300.0) returns True
AliceGotBases ==
    /\ pc["Alice"] = "wait_bases"
    /\ ev["Alice"].bases_received \/ notified["Alice"]
    /\ pc' = [pc EXCEPT !["Alice"] = "reconcile"]
    /\ UNCHANGED <<clr, ev, rx, notified, loc, outcome, entry, send_km, recv_km, net, refreshes>>

\* a wait that, on expiry, sends the photons again instead of giving up
AliceBasesTimeout_retry ==
    /\ pc["Alice"] = "wait_bases"
    /\ ~ev["Alice"].bases_received
    /\ ~notified["Alice"]
    /\ pc' = [pc EXCEPT !["Alice"] = "send_photons"]
    /\ UNCHANGED <<clr, ev, rx, notified, loc, outcome, entry, send_km, recv_km, net, refreshes>>

\* the wait returns False after 300 s
AliceBasesTimeout ==
    /\ pc["Alice"] = "wait_bases"
    /\ ~ev["Alice"].bases_received
    /\ ~notified["Alice"]
    /\ Return("Alice", "timeout")
    /\ UNCHANGED <<clr, ev, rx, notified, send_km, recv_km, net, refreshes>>

\* bob_bases = self._received_bases; reconciliation; MSG_BB84_MATCHES is sent,
\* outside any try
AliceReconcile ==
    /\ pc["Alice"] = "reconcile"
    /\ IF rx["Alice"].bases = None \/ ~connected
       THEN \* iterating None: TypeError; sendall on a lost connection: OSError
            /\ Crash("Alice")
            /\ UNCHANGED net
       ELSE LET bob_bases == rx["Alice"].bases[1]
                matching_positions ==
                    find_matching_positions(loc["Alice"].alice_bases, bob_bases)
            IN  /\ loc' = [loc EXCEPT !["Alice"] =
                             [ alice_bits         |-> @.alice_bits,
                               alice_bases        |-> @.alice_bases,
                               photons            |-> @.photons,
                               bob_bases          |-> bob_bases,
                               matching_positions |-> matching_positions,
                               alice_raw_key      |->
                                   extract_key_bits(@.alice_bits, matching_positions) ]]
                /\ Send("Alice", MSG_BB84_MATCHES,
                        [ positions   |-> matching_positions,
                          alice_bases |-> loc["Alice"].alice_bases ])
                /\ pc' = [pc EXCEPT !["Alice"] = "check"]
                /\ UNCHANGED <<outcome, entry>>
    /\ UNCHANGED <<clr, ev, rx, notified, send_km, recv_km, refreshes>>

\* what the function takes from check_errors(alice_raw_key, alice_raw_key)
AliceChecked(alice_raw_key, sampled) ==
    check_errors(alice_raw_key, alice_raw_key, sampled)

AliceCheckErrors_retry ==
    /\ pc["Alice"] = "check"
    /\ pc' = [pc EXCEPT !["Alice"] = "clear"]
    /\ clr' = [clr EXCEPT !["Alice"] = 1]
    /\ UNCHANGED <<ev, rx, notified, loc, outcome, entry, send_km, recv_km, net, refreshes>>

\* check_errors, remove_sample_bits and the length test `< 1`
AliceCheckErrors ==
    /\ pc["Alice"] = "check"
    /\ \E sampled \in SampleChoices(Len(loc["Alice"].alice_raw_key)) :
        LET checked == AliceChecked(loc["Alice"].alice_raw_key, sampled)
            alice_final_key ==
                remove_sample_bits(loc["Alice"].alice_raw_key, checked.sample_positions)
        IN  IF Len(alice_final_key) < 1
            THEN Return("Alice", "too_short")
            ELSE /\ loc' = [loc EXCEPT !["Alice"] =
                              [ alice_bits         |-> @.alice_bits,
                                alice_bases        |-> @.alice_bases,
                                photons            |-> @.photons,
                                bob_bases          |-> @.bob_bases,
                                matching_positions |-> @.matching_positions,
                                alice_raw_key      |-> @.alice_raw_key,
                                error_rate         |-> checked.error_rate,
                                sample_positions   |-> checked.sample_positions,
                                alice_final_key    |-> alice_final_key ]]
                 /\ pc' = [pc EXCEPT !["Alice"] = "set_send"]
                 /\ UNCHANGED <<outcome, entry>>
    /\ UNCHANGED <<clr, ev, rx, notified, send_km, recv_km, net, refreshes>>

\* self.send_key_manager.set_key(list(alice_final_key), 0.0)
AliceSetSendKey ==
    /\ pc["Alice"] = "set_send"
    /\ send_km' = [send_km EXCEPT !["Alice"] =
                     set_key(@, loc["Alice"].alice_final_key, FracZero)]
    /\ pc' = [pc EXCEPT !["Alice"] = "set_recv"]
    /\ UNCHANGED <<clr, ev, rx, notified, loc, outcome, entry, recv_km, net, refreshes>>

AliceSetRecvKey_skip ==
    /\ pc["Alice"] = "set_recv"
    /\ pc' = [pc EXCEPT !["Alice"] = "key_ready"]
    /\ UNCHANGED <<clr, ev, rx, notified, loc, outcome, entry, send_km, recv_km, net, refreshes>>

\* self.recv_key_manager.set_key(list(alice_final_key), 0.0)
AliceSetRecvKey ==
    /\ pc["Alice"] = "set_recv"
    /\ recv_km' = [recv_km EXCEPT !["Alice"] =
                     set_key(@, loc["Alice"].alice_final_key, FracZero)]
    /\ pc' = [pc EXCEPT !["Alice"] = "key_ready"]
    /\ UNCHANGED <<clr, ev, rx, notified, loc, outcome, entry, send_km, net, refreshes>>

\* self._key_ready.set()
AliceKeyReady ==
    /\ pc["Alice"] = "key_ready"
    /\ ev' = [ev EXCEPT !["Alice"].key_ready = TRUE]
    /\ pc' = [pc EXCEPT !["Alice"] = "send_complete"]
    /\ UNCHANGED <<clr, rx, notified, loc, outcome, entry, send_km, recv_km, net, refreshes>>

\* MSG_BB84_COMPLETE carries the key and error_rate 0.0; the function returns
AliceSendComplete ==
    /\ pc["Alice"] = "send_complete"
    /\ Send("Alice", MSG_BB84_COMPLETE,
            [key |-> loc["Alice"].alice_final_key, error_rate |-> FracZero])
    /\ Return("Alice", "established")
    /\ UNCHANGED <<clr, ev, rx, notified, send_km, recv_km, refreshes>>

(* interactive_key_exchange_bob *)

\* self._photons_received.wait(timeout=600.0) returns True
BobGotPhotons ==
    /\ pc["Bob"] = "wait_photons"
    /\ ev["Bob"].photons_received \/ notified["Bob"]
    /\ pc' = [pc EXCEPT !["Bob"] = "prompt"]
    /\ UNCHANGED <<clr, ev, rx, notified, loc, outcome, entry, send_km, recv_km, net, refreshes>>

BobPhotonsTimeout ==
    /\ pc["Bob"] = "wait_photons"
    /\ ~ev["Bob"].photons_received
    /\ ~notified["Bob"]
    /\ Return("Bob", "timeout")
    /\ UNCHANGED <<clr, ev, rx, notified, send_km, recv_km, net, refreshes>>

\* photon_data = self._received_photons_data; Bob types his bases and the
\* photons are measured (coins: the mismatch coins of measure_photon)
BobMeasure ==
    /\ pc["Bob"] = "prompt"
    /\ IF rx["Bob"].photons_data = None
       THEN \* iterating None: TypeError
            Crash("Bob")
       ELSE LET photon_data == rx["Bob"].photons_data[1]
                photons == [i \in 1..Len(photon_data) |-> from_dict(photon_data[i])]
                num == Len(photons)
            IN  \E bob_bases \in [1..num -> Bases], coins \in [1..num -> Bit] :
                    /\ loc' = [loc EXCEPT !["Bob"] =
                                 [ photons   |-> photons,
                                   bob_bases |-> bob_bases,
                                   bob_bits  |-> measure_photons(photons, bob_bases, coins) ]]
                    /\ pc' = [pc EXCEPT !["Bob"] = "send_bases"]
                    /\ UNCHANGED <<outcome, entry>>
    /\ UNCHANGED <<clr, ev, rx, notified, send_km, recv_km, net, refreshes>>

BobPromptCancel ==
    /\ pc["Bob"] = "prompt"
    /\ rx["Bob"].photons_data # None
    /\ Return("Bob", "cancelled")
    /\ UNCHANGED <<clr, ev, rx, notified, send_km, recv_km, net, refreshes>>

\* the send is outside any try
BobSendBases ==
    /\ pc["Bob"] = "send_bases"
    /\ Send("Bob", MSG_BB84_BASES, [bases |-> loc["Bob"].bob_bases])
    /\ IF connected
       THEN /\ pc' = [pc EXCEPT !["Bob"] = "wait_key"]
            /\ notified' = [notified EXCEPT !["Bob"] = FALSE]
            /\ UNCHANGED <<loc, outcome, entry>>
       ELSE /\ Crash("Bob")
            /\ UNCHANGED notified
    /\ UNCHANGED <<clr, ev, rx, send_km, recv_km, refreshes>>

\* self._key_ready.wait(timeout=300.0) returns True
BobGotKey ==
    /\ pc["Bob"] = "wait_key"
    /\ ev["Bob"].key_ready \/ notified["Bob"]
    /\ pc' = [pc EXCEPT !["Bob"] = "read_key"]
    /\ UNCHANGED <<clr, ev, rx, notified, loc, outcome, entry, send_km, recv_km, net, refreshes>>

BobKeyTimeout ==
    /\ pc["Bob"] = "wait_key"
    /\ ~ev["Bob"].key_ready
    /\ ~notified["Bob"]
    /\ Return("Bob", "timeout")
    /\ UNCHANGED <<clr, ev, rx, notified, send_km, recv_km, net, refreshes>>

\* key_bits = self._received_key
BobReadKey ==
    /\ pc["Bob"] = "read_key"
    /\ loc' = [loc EXCEPT !["Bob"] =
                 [ photons   |-> @.photons,
                   bob_bases |-> @.bob_bases,
                   bob_bits  |-> @.bob_bits,
                   key_bits  |-> rx["Bob"].key ]]
    /\ pc' = [pc EXCEPT !["Bob"] = "read_rate"]
    /\ UNCHANGED <<clr, ev, rx, notified, outcome, entry, send_km, recv_km, net, refreshes>>

\* error_rate = self._received_error_rate or 0.0
BobReadRate ==
    /\ pc["Bob"] = "read_rate"
    /\ loc' = [loc EXCEPT !["Bob"] =
                 [ photons    |-> @.photons,
                   bob_bases  |-> @.bob_bases,
                   bob_bits   |-> @.bob_bits,
                   key_bits   |-> @.key_bits,
                   error_rate |-> IF rx["Bob"].error_rate = None
                                     \/ rx["Bob"].error_rate[1][1] = 0
                                  THEN FracZero
                                  ELSE rx["Bob"].error_rate[1] ]]
    /\ pc' = [pc EXCEPT !["Bob"] = "set_send"]
    /\ UNCHANGED <<clr, ev, rx, notified, outcome, entry, send_km, recv_km, net, refreshes>>

\* self.send_key_manager.set_key(list(key_bits), error_rate)
BobSetSendKey ==
    /\ pc["Bob"] = "set_send"
    /\ IF loc["Bob"].key_bits = None
       THEN \* list(None): TypeError
            /\ Crash("Bob")
            /\ UNCHANGED send_km
       ELSE /\ send_km' = [send_km EXCEPT !["Bob"] =
                             set_key(@, loc["Bob"].key_bits[1], loc["Bob"].error_rate)]
            /\ pc' = [pc EXCEPT !["Bob"] = "set_recv"]
            /\ UNCHANGED <<loc, outcome, entry>>
    /\ UNCHANGED <<clr, ev, rx, notified, recv_km, net, refreshes>>

\* self.recv_key_manager.set_key(list(key_bits), error_rate); the function returns
BobSetRecvKey ==
    /\ pc["Bob"] = "set_recv"
    /\ recv_km' = [recv_km EXCEPT !["Bob"] =
                     set_key(@, loc["Bob"].key_bits[1], loc["Bob"].error_rate)]
    /\ Return("Bob", "established")
    /\ UNCHANGED <<clr, ev, rx, notified, send_km, net, refreshes>>

(* handle_received_message and the _handle_* methods *)

\* Event.set() wakes the foreground if it is blocked in wait() on that event
Wakes(role, waiting) ==
    [notified EXCEPT ![role] = @ \/ pc[role] = waiting]

HandleInit(role, payload) ==
    /\ ev' = [ev EXCEPT ![role].init_received = TRUE]
    /\ UNCHANGED <<rx, notified, send_km, recv_km>>

HandlePhotons(role, payload) ==
    /\ rx' = [rx EXCEPT ![role].photons_data = Some(payload.photons)]
    /\ ev' = [ev EXCEPT ![role].photons_received = TRUE]
    /\ notified' = Wakes(role, "wait_photons")
    /\ UNCHANGED <<send_km, recv_km>>

HandleBases(role, payload) ==
    /\ rx' = [rx EXCEPT ![role].bases = Some(payload.bases)]
    /\ ev' = [ev EXCEPT ![role].bases_received = TRUE]
    /\ notified' = Wakes(role, "wait_bases")
    /\ UNCHANGED <<send_km, recv_km>>

HandleMatches(role, payload) ==
    /\ rx' = [rx EXCEPT ![role].matches = Some(payload.positions)]
    /\ ev' = [ev EXCEPT ![role].matches_received = TRUE]
    /\ UNCHANGED <<notified, send_km, recv_km>>

\* `if not self._photons_received.is_set()`: the key is installed directly
InstallsDirectly(role) == ~ev[role].photons_received

HandleKeySync(role, payload) ==
    IF payload.key # <<>>
    THEN /\ rx' = [rx EXCEPT ![role].key = Some(payload.key),
                             ![role].error_rate = Some(payload.error_rate)]
         /\ IF InstallsDirectly(role)
            THEN /\ send_km' = [send_km EXCEPT ![role] =
                                  set_key(@, payload.key, payload.error_rate)]
                 /\ recv_km' = [recv_km EXCEPT ![role] =
                                  set_key(@, payload.key, payload.error_rate)]
            ELSE UNCHANGED <<send_km, recv_km>>
         /\ ev' = [ev EXCEPT ![role].key_ready = TRUE]
         /\ notified' = Wakes(role, "wait_key")
    ELSE UNCHANGED <<ev, rx, notified, send_km, recv_km>>

\* MSG_KEY_ROTATE: Bob resets his exchange state, Alice only reports it
HandleKeyRotate(role, payload) ==
    /\ IF role = "Bob"
       THEN /\ ev' = [ev EXCEPT ![role] = NoEvents]
            /\ rx' = [rx EXCEPT ![role] = NoReceived]
       ELSE UNCHANGED <<ev, rx>>
    /\ UNCHANGED <<notified, send_km, recv_km>>

\* _handle_chat: "Received message but no key!", "Key exhausted during
\* decrypt!", or the plaintext is displayed; seed is the raw key of the
\* EncryptionKey that decrypted it (history)
HandleChat(role, payload) ==
    /\ LET dec == decrypt_message(payload.ciphertext, recv_km[role])
           Shown(status, text, seed) == [status |-> status, text |-> text, seed |-> seed]
       IN  IF get_key(recv_km[role]) = None
           THEN /\ shown' = [shown EXCEPT ![role] = Append(@, Shown("no_key", <<>>, <<>>))]
                /\ UNCHANGED recv_km
           ELSE IF dec.raised
           THEN /\ shown' = [shown EXCEPT ![role] = Append(@, Shown("exhausted", <<>>, <<>>))]
                /\ UNCHANGED recv_km
           ELSE /\ shown' = [shown EXCEPT ![role] =
                               Append(@, Shown("ok", dec.plaintext,
                                               get_key(recv_km[role])[1].seed_bits))]
                /\ recv_km' = [recv_km EXCEPT ![role] = dec.after]
    /\ UNCHANGED <<ev, rx, notified, send_km>>

\* the receive thread takes the oldest message in flight and dispatches it;
\* MSG_DISCONNECT: self.running = False
HandleReceivedMessage(role) ==
    /\ pc[role] \notin {"crashed", "stopped"}
    /\ net[role] # <<>>
    /\ net' = [net EXCEPT ![role] = Tail(@)]
    /\ mgr_running' = IF Head(net[role]).type = MSG_DISCONNECT
                      THEN [mgr_running EXCEPT ![role] = FALSE]
                      ELSE mgr_running
    /\ LET msg == Head(net[role]) IN
       IF msg.type = MSG_CHAT
       THEN HandleChat(role, msg.payload)
       ELSE /\ UNCHANGED shown
            /\ CASE msg.type = MSG_BB84_INIT     -> HandleInit(role, msg.payload)
                  [] msg.type = MSG_BB84_PHOTONS  -> HandlePhotons(role, msg.payload)
                  [] msg.type = MSG_BB84_BASES    -> HandleBases(role, msg.payload)
                  [] msg.type = MSG_BB84_MATCHES  -> HandleMatches(role, msg.payload)
                  [] msg.type = MSG_BB84_COMPLETE -> HandleKeySync(role, msg.payload)
                  [] msg.type = MSG_KEY_ROTATE    -> HandleKeyRotate(role, msg.payload)
                  [] OTHER -> UNCHANGED <<ev, rx, notified, send_km, recv_km>>
    /\ UNCHANGED <<pc, clr, loc, outcome, entry, refreshes>>

\* send_chat_message(text) from the chat loop.  first and bits are the
\* keystream positions consumed (history); network.send(MSG_CHAT) is outside
\* any try, so a lost connection ends run() with the exception
SendChatMessage(role, text) ==
    /\ pc[role] = "chat"
    /\ mgr_running[role]
    /\ Len(sent[role]) < MaxChats
    /\ LET key_manager == send_km[role]
           enc == encrypt_message(text, key_manager)
           Sent(status, first, bits, seed) ==
               [status |-> status, text |-> text, first |-> first, bits |-> bits, seed |-> seed]
           Refused(why) ==
               /\ sent' = [sent EXCEPT ![role] = Append(@, Sent(why, 0, 0, <<>>))]
               /\ UNCHANGED <<send_km, net, pc, loc, outcome, entry>>
       IN  IF get_key(key_manager) = None
           THEN Refused("no_key")
           ELSE IF remaining(get_key(key_manager)[1]) < Len(text) * 8 \/ enc.raised
           THEN Refused("exhausted")
           ELSE /\ send_km' = [send_km EXCEPT ![role] = enc.after]
                /\ Send(role, MSG_CHAT, [sender |-> role, ciphertext |-> enc.ciphertext,
                                         bits_used |-> enc.bits_used])
                /\ sent' = [sent EXCEPT ![role] =
                              Append(@, Sent("sent", get_key(key_manager)[1].bits_used,
                                             enc.bits_used, get_key(key_manager)[1].seed_bits))]
                /\ IF connected
                   THEN UNCHANGED <<pc, loc, outcome, entry>>
                   ELSE Crash(role)
    /\ UNCHANGED <<clr, ev, rx, notified, recv_km, refreshes, mgr_running, shown>>

\* a whole exchange that succeeds on both sides: the four set_key calls
\* (Alice's two, Bob's two) with the same final key, then both chat loops
EstablishKeys(key_bits) ==
    /\ \A role \in Roles : pc[role] = "start"
    /\ pc' = [role \in Roles |-> "chat"]
    /\ send_km' = [role \in Roles |-> set_key(send_km[role], key_bits, FracZero)]
    /\ recv_km' = [role \in Roles |-> set_key(recv_km[role], key_bits, FracZero)]
    /\ outcome' = [role \in Roles |-> "established"]
    /\ UNCHANGED <<clr, ev, rx, notified, loc, entry, net, refreshes, mgr_running, sent, shown>>

\* the lines typed at the chat prompt: Latin-1 text, a character above
\* U+00FF (the euro sign) and a line as long as the whole keystream
ChatTexts ==
    { <<104, 233>>, <<8364>>, [i \in 1..(EXPANDED_KEY_BITS \div 8) |-> 32 + (i % 64)] }

\* process_command('/quit') in the chat loop: MSG_DISCONNECT inside
\* try/except, running = False, the loop is left and cleanup() clears both
\* key managers and stops the network
Quit(role) ==
    /\ pc[role] = "chat"
    /\ mgr_running[role]
    /\ Send(role, MSG_DISCONNECT, [none |-> TRUE])
    /\ mgr_running' = [mgr_running EXCEPT ![role] = FALSE]
    /\ pc' = [pc EXCEPT ![role] = "stopped"]
    /\ send_km' = [send_km EXCEPT ![role] = clear(@)]
    /\ recv_km' = [recv_km EXCEPT ![role] = clear(@)]
    /\ UNCHANGED <<clr, ev, rx, notified, loc, outcome, entry, refreshes>>

\* `while self.running:` finds running cleared by the receive thread: cleanup()
LoopExit(role) ==
    /\ pc[role] = "chat"
    /\ ~mgr_running[role]
    /\ pc' = [pc EXCEPT ![role] = "stopped"]
    /\ send_km' = [send_km EXCEPT ![role] = clear(@)]
    /\ recv_km' = [recv_km EXCEPT ![role] = clear(@)]
    /\ UNCHANGED <<clr, ev, rx, notified, loc, outcome, entry, net, refreshes, mgr_running>>

\* the connection between the two processes is lost: every later sendall raises
LinkLost ==
    /\ connected
    /\ connected' = FALSE
    /\ UNCHANGED <<pc, clr, ev, rx, notified, loc, outcome, entry, send_km, recv_km, net,
                   refreshes, mgr_running>>

chatVars == <<pc, clr, ev, rx, notified, loc, outcome, entry, send_km, recv_km, net, refreshes,
              mgr_running>>
talkVars == <<sent, shown>>

\* The history of a role.  sent: the types of the messages its foreground
\* sent since it last entered the exchange function; got: the types its
\* receive thread handled since then; early: a photon batch was handled
\* while the foreground was outside the exchange function, since it last
\* left it; attempts: how many times the exchange function was entered.
NoHistory == [sent |-> <<>>, got |-> {}, early |-> FALSE, attempts |-> 0]

Outside(role) == pc[role] \in {"start", "chat"}

Logged ==
    hist' = [role \in Roles |->
        LET h == hist[role]
            entering == pc[role] # "clear" /\ pc'[role] = "clear"
            leaving  == ~Outside(role) /\ pc'[role] \in {"chat", "crashed", "stopped"}
            outbox   == net'[Other(role)]
            sending  == Len(outbox) > Len(net[Other(role)])
            handling == net[role] # <<>> /\ net'[role] = Tail(net[role])
        IN  [ sent |-> IF entering THEN <<>>
                       ELSE IF sending THEN Append(h.sent, outbox[Len(outbox)].type)
                       ELSE h.sent,
              got  |-> IF entering THEN {}
                       ELSE IF handling THEN h.got \cup {Head(net[role]).type}
                       ELSE h.got,
              early |-> IF leaving THEN FALSE
                        ELSE IF handling /\ Head(net[role]).type = MSG_BB84_PHOTONS
                                /\ Outside(role)
                        THEN TRUE
                        ELSE h.early,
              attempts |-> IF entering THEN h.attempts + 1 ELSE h.attempts ]]

----------------------------------------------------------------------------
(* src/main_alice.py, src/chat/manager.py: one ChatManager from run() to    *)
(* the end of the process (SpecRun)                                         *)
(*                                                                          *)
(* The exchange function is taken as a whole here, by the ways it can end:  *)
(* it returns without a key (a cancelled prompt, a timeout, a key that is   *)
(* too short, photons that could not be sent), it returns with the key set  *)
(* on both managers, or an exception leaves it (the sending of MATCHES by   *)
(* Alice and of BASES by Bob is outside any try; a KeyboardInterrupt can    *)
(* arrive inside Event.wait).  Of the receive thread only the handling of   *)
(* MSG_DISCONNECT is kept, the one message that changes `running`.          *)

\* lengths, in characters, of the chat messages typed
TextLengths == {1, 2, 128}

\* run(): start_receiving, then the role's exchange function
RunStart ==
    /\ rpc = "start"
    /\ rpc' = "exchange"
    /\ UNCHANGED <<running, connected, send_key_manager, recv_key_manager, cleared, typed>>

\* the exchange function returns and has set no key
ExchangeReturns ==
    /\ rpc \in {"exchange", "refresh"}
    /\ rpc' = "while"
    /\ UNCHANGED <<running, connected, send_key_manager, recv_key_manager, cleared, typed>>

\* the exchange function sets the key on both managers and returns
ExchangeEstablishes(key_bits) ==
    /\ rpc \in {"exchange", "refresh"}
    /\ connected
    /\ send_key_manager' = set_key(send_key_manager, key_bits, FracZero)
    /\ recv_key_manager' = set_key(recv_key_manager, key_bits, FracZero)
    /\ rpc' = "while"
    /\ UNCHANGED <<running, connected, cleared, typed>>

\* network.send outside a try raises (OSError) inside the exchange function;
\* neither process_command nor the chat loop catches it, run() is left by the
\* exception, main() reports "Fatal error" and its finally clause calls
\* client.stop(): rpc = "fatal"
ExchangeRaises ==
    /\ rpc \in {"exchange", "refresh"}
    /\ ~connected
    /\ rpc' = "fatal"
    /\ UNCHANGED <<running, connected, send_key_manager, recv_key_manager, cleared, typed>>

\* Ctrl+C while the exchange function is blocked in Event.wait: the first
\* exchange is outside the try of the chat loop, a /refresh exchange inside
ExchangeInterrupted ==
    /\ rpc \in {"exchange", "refresh"}
    /\ rpc' = IF rpc = "exchange" THEN "fatal" ELSE "cleanup"
    /\ UNCHANGED <<running, connected, send_key_manager, recv_key_manager, cleared, typed>>

\* `while self.running:`
LoopTest ==
    /\ rpc = "while"
    /\ rpc' = IF running THEN "input" ELSE "cleanup"
    /\ UNCHANGED <<running, connected, send_key_manager, recv_key_manager, cleared, typed>>

\* '/refresh': MSG_KEY_ROTATE is sent inside try/except, the exchange follows
TypeRefresh ==
    /\ rpc = "input"
    /\ typed < MaxTyped
    /\ typed' = typed + 1
    /\ rpc' = "refresh"
    /\ UNCHANGED <<running, connected, send_key_manager, recv_key_manager, cleared>>

\* a command that only displays (/help, /key, /stats, /verbose, /history ...)
TypeOtherCommand ==
    /\ rpc = "input"
    /\ typed < MaxTyped
    /\ typed' = typed + 1
    /\ rpc' = "while"
    /\ UNCHANGED <<running, connected, send_key_manager, recv_key_manager, cleared>>

\* '/quit': MSG_DISCONNECT inside try/except, running = False, break
TypeQuit ==
    /\ rpc = "input"
    /\ typed < MaxTyped
    /\ typed' = typed + 1
    /\ running' = FALSE
    /\ rpc' = "cleanup"
    /\ UNCHANGED <<connected, send_key_manager, recv_key_manager, cleared>>

\* Ctrl+C or end of input at the prompt: MSG_DISCONNECT inside try/except, break
TypeInterrupt ==
    /\ rpc = "input"
    /\ rpc' = "cleanup"
    /\ UNCHANGED <<running, connected, send_key_manager, recv_key_manager, cleared, typed>>

\* send_chat_message(text), text of `length` characters
TypeChat(length) ==
    /\ rpc = "input"
    /\ typed < MaxTyped
    /\ typed' = typed + 1
    /\ IF get_key(send_key_manager) = None
       THEN \* "No key! Use /refresh first."
            /\ rpc' = "while"
            /\ UNCHANGED send_key_manager
       ELSE LET key == get_key(send_key_manager)[1]
                bits_needed == length * 8
            IN  IF remaining(key) < bits_needed
                THEN \* "Key exhausted!"
                     /\ rpc' = "while"
                     /\ UNCHANGED send_key_manager
                ELSE \* encrypt_message consumes the bits; network.send(MSG_CHAT)
                     \* follows outside any try
                     /\ send_key_manager' =
                          [send_key_manager EXCEPT !.current_key =
                              Some(ConsumeAdvance(key, bits_needed))]
                     /\ rpc' = IF connected THEN "while" ELSE "fatal"
    /\ UNCHANGED <<running, connected, recv_key_manager, cleared>>

\* the receive thread handles MSG_DISCONNECT: self.running = False
PeerDisconnected ==
    /\ rpc \notin {"start", "ended", "fatal"}
    /\ running
    /\ connected
    /\ running' = FALSE
    /\ UNCHANGED <<rpc, connected, send_key_manager, recv_key_manager, cleared, typed>>

\* the peer goes away or the network fails: what is sent from now on raises
ConnectionLost ==
    /\ rpc \notin {"start", "ended", "fatal"}
    /\ connected
    /\ connected' = FALSE
    /\ UNCHANGED <<rpc, running, send_key_manager, recv_key_manager, cleared, typed>>

\* cleanup(): clear() on both key managers, network.stop(); run() returns
\* and main() ends
Cleanup ==
    /\ rpc = "cleanup"
    /\ send_key_manager' = clear(send_key_manager)
    /\ recv_key_manager' = clear(recv_key_manager)
    /\ cleared' = {"send", "recv"}
    /\ connected' = FALSE
    /\ rpc' = "ended"
    /\ UNCHANGED <<running, typed>>

runVars == <<rpc, running, connected, send_key_manager, recv_key_manager, cleared, typed>>

----------------------------------------------------------------------------
(* src/network/client.py, src/network/server.py: _receive_loop (SpecRecv)   *)
(*                                                                          *)
(* The socket was given settimeout(CONNECTION_TIMEOUT) at connect / accept, *)
(* so sock.recv raises socket.timeout when nothing arrives in that time.    *)
(* socket.timeout is a subclass of OSError.                                 *)

MessageTypes ==
    { MSG_CHAT, MSG_BB84_INIT, MSG_BB84_PHOTONS, MSG_BB84_BASES, MSG_BB84_MATCHES,
      MSG_BB84_COMPLETE, MSG_KEY_ROTATE, MSG_DISCONNECT }

\* the loop is at `while self.running and self.socket:` or inside recv_message
Reading == recv_loop = "reading"

\* what arrives as one frame: the type and sequence number of its header,
\* and whether recv_message can decode it ("ok"), its header stops before
\* HEADER_SIZE bytes ("short_header"), or its payload is not JSON
\* ("bad_payload").  pack_message numbers the frames of a process 1, 2, ...;
\* a replayed or injected frame carries any number.
Frames ==
    [type : MessageTypes, seq : 1..MaxWritten, form : {"ok"}]
        \cup [type : {MSG_CHAT}, seq : {1}, form : {"short_header", "bad_payload"}]

\* a frame arrives on the socket
PeerWrites(frame) ==
    /\ sock_state = "alive"
    /\ Len(sock) + Len(delivered) < MaxWritten
    /\ sock' = Append(sock, frame)
    /\ UNCHANGED <<sock_state, net_running, recv_loop, delivered>>

\* recv_message reads the next frame.  It returns (msg_type, payload, seq) and
\* on_message is called with them, whatever seq is; or it raises
\* ProtocolError (header cut short) or json.loads raises ValueError, and the
\* except clauses end the loop
ReceiveMessage ==
    /\ Reading
    /\ net_running
    /\ sock_state = "alive"
    /\ sock # <<>>
    /\ sock' = Tail(sock)
    /\ IF Head(sock).form = "ok"
       THEN /\ delivered' = Append(delivered, Head(sock))
            /\ UNCHANGED <<net_running, recv_loop>>
       ELSE /\ net_running' = FALSE
            /\ recv_loop' = "violation"
            /\ UNCHANGED delivered
    /\ UNCHANGED sock_state

\* how the except clauses leave the loop: `if self.running: self.running = False`
\* and `break`
LoopBreaks(why) ==
    /\ net_running' = FALSE
    /\ recv_loop' = why

\* nothing arrives within CONNECTION_TIMEOUT: sock.recv raises socket.timeout,
\* which `except (ProtocolError, ConnectionError, OSError)` catches
ReadTimeout ==
    /\ Reading
    /\ net_running
    /\ sock_state = "alive"
    /\ sock = <<>>
    /\ LoopBreaks("timeout")
    /\ UNCHANGED <<sock, sock_state, delivered>>

\* the connection fails: the peer resets or closes it
SocketFails ==
    /\ sock_state = "alive"
    /\ sock_state' = "broken"
    /\ UNCHANGED <<sock, net_running, recv_loop, delivered>>

\* recv raises ConnectionError, or returns b'' and recv_message raises
\* ProtocolError("Connection closed")
ReadFatal ==
    /\ Reading
    /\ net_running
    /\ sock_state = "broken"
    /\ LoopBreaks("fatal")
    /\ UNCHANGED <<sock, sock_state, delivered>>

\* stop(): running = False and the socket is closed
Stop ==
    /\ sock_state # "closed"
    /\ net_running' = FALSE
    /\ sock_state' = "closed"
    /\ UNCHANGED <<sock, recv_loop, delivered>>

\* the loop sees running cleared, or its read fails on the closed socket
LoopStopped ==
    /\ Reading
    /\ ~net_running
    /\ recv_loop' = "stopped"
    /\ UNCHANGED <<sock, sock_state, net_running, delivered>>

\* the receive thread of the ChatManager of SpecRun: its read fails on the
\* lost connection, the except clause clears Client.running and the loop
\* ends; no field of the ChatManager is touched and on_message is not called
ReceiveLoopFails ==
    /\ ~connected
    /\ rpc \notin {"ended", "fatal"}
    /\ Reading
    /\ net_running
    /\ LoopBreaks("fatal")
    /\ UNCHANGED <<sock, sock_state, delivered>>
    /\ UNCHANGED <<rpc, running, connected, send_key_manager, recv_key_manager, cleared, typed>>

recvVars == <<sock, sock_state, net_running, recv_loop, delivered>>

----------------------------------------------------------------------------
(* src/network/protocol.py: pack_message, unpack_header, unpack_payload     *)
(* (SpecWire)                                                               *)
(*                                                                          *)
(* A message on the wire is a sequence of bytes (0..255).  A payload is the *)
(* list of the (key, value) pairs of a dict in insertion order; a key is the *)
(* list of its character codes and a value is an int, a list of ints or a   *)
(* str, the kinds the coordinator sends apart from the float error_rate.    *)
(* json.dumps writes ", " and ": " as separators and ASCII only; json.loads *)
(* accepts any blanks between tokens.                                       *)
----------------------------------------------------------------------------

HEADER_SIZE == 9

\* struct.pack('!I', n): four bytes, most significant first
PackU32_le(n) == <<n % 256, (n \div 256) % 256, (n \div 65536) % 256, (n \div 16777216) % 256>>

PackU32(n) == <<(n \div 16777216) % 256, (n \div 65536) % 256, (n \div 256) % 256, n % 256>>

UnpackU32(b) == ((b[1] * 256 + b[2]) * 256 + b[3]) * 256 + b[4]

\* struct.pack('!i', n): two's complement; the sign is the top bit of the first byte
PackI32(n) ==
    IF n >= 0 THEN PackU32(n)
    ELSE LET low == PackU32((n + 2147483647) + 1)
         IN  <<low[1] + 128, low[2], low[3], low[4]>>

UnpackI32(b) ==
    IF b[1] < 128 THEN UnpackU32(b)
    ELSE (UnpackU32(<<b[1] - 128, b[2], b[3], b[4]>>) - 2147483647) - 1

\* a value of a payload: kind "int" (items is the number alone), "list" or "str"
JsonValue(kind, items) == [kind |-> kind, items |-> items]

\* json.dumps(payload).encode('utf-8')
json_dumps(payload) ==
    LET RECURSIVE DumpInt(_)
        DumpInt(n) == IF n < 10 THEN <<48 + n>> ELSE DumpInt(n \div 10) \o <<48 + (n % 10)>>
        RECURSIVE DumpItems(_, _)
        DumpItems(items, i) ==
            IF i > Len(items) THEN <<>>
            ELSE (IF i > 1 THEN <<44, 32>> ELSE <<>>) \o DumpInt(items[i]) \o DumpItems(items, i + 1)
        DumpValue(v) ==
            CASE v.kind = "int" -> DumpInt(v.items[1])
              [] v.kind = "list" -> <<91>> \o DumpItems(v.items, 1) \o <<93>>
              [] v.kind = "str" -> <<34>> \o v.items \o <<34>>
        RECURSIVE DumpPairs(_)
        DumpPairs(i) ==
            IF i > Len(payload) THEN <<>>
            ELSE (IF i > 1 THEN <<44, 32>> ELSE <<>>)
                 \o <<34>> \o payload[i][1] \o <<34, 58, 32>> \o DumpValue(payload[i][2])
                 \o DumpPairs(i + 1)
    IN  <<123>> \o DumpPairs(1) \o <<125>>

\* json.loads(data.decode('utf-8')): every step of the parser gives the value
\* read and the position after it
json_loads(data) ==
    LET Parsed(val, next) == [val |-> val, next |-> next]
        RECURSIVE SkipBlanks(_)
        SkipBlanks(i) == IF i <= Len(data) /\ data[i] = 32 THEN SkipBlanks(i + 1) ELSE i
        RECURSIVE ParseInt(_, _)
        ParseInt(i, acc) ==
            IF i <= Len(data) /\ data[i] \in 48..57
            THEN ParseInt(i + 1, acc * 10 + (data[i] - 48))
            ELSE Parsed(acc, i)
        RECURSIVE ParseChars(_, _)
        ParseChars(i, acc) ==
            IF data[i] = 34 THEN Parsed(acc, i + 1) ELSE ParseChars(i + 1, Append(acc, data[i]))
        RECURSIVE ParseItems(_, _)
        ParseItems(i, acc) ==
            LET at == SkipBlanks(i)
            IN  IF data[at] = 93 THEN Parsed(acc, at + 1)
                ELSE IF data[at] = 44 THEN ParseItems(at + 1, acc)
                ELSE LET item == ParseInt(at, 0)
                     IN  ParseItems(item.next, Append(acc, item.val))
        ParseValue(i) ==
            LET at == SkipBlanks(i)
            IN  CASE data[at] = 91 ->
                       LET list == ParseItems(at + 1, <<>>)
                       IN  Parsed(JsonValue("list", list.val), list.next)
                  [] data[at] = 34 ->
                       LET str == ParseChars(at + 1, <<>>)
                       IN  Parsed(JsonValue("str", str.val), str.next)
                  [] OTHER ->
                       LET int == ParseInt(at, 0)
                       IN  Parsed(JsonValue("int", <<int.val>>), int.next)
        RECURSIVE ParsePairs(_, _)
        ParsePairs(i, acc) ==
            LET at == SkipBlanks(i)
            IN  IF data[at] = 125 THEN acc
                ELSE IF data[at] = 44 THEN ParsePairs(at + 1, acc)
                ELSE LET key == ParseChars(at + 1, <<>>)
                         colon == SkipBlanks(key.next)
                         value == ParseValue(colon + 1)
                     IN  ParsePairs(value.next, Append(acc, <<key.val, value.val>>))
    IN  ParsePairs(2, <<>>)

pack_message(msg_type, payload, seq) ==
    LET payload_bytes == json_dumps(payload)
    IN  <<msg_type>> \o PackU32(Len(payload_bytes)) \o PackI32(seq) \o payload_bytes

\* raises ProtocolError (None here) on fewer than HEADER_SIZE bytes
unpack_header(data) ==
    IF Len(data) < HEADER_SIZE THEN None
    ELSE Some(<<data[1], UnpackU32(SubSeq(data, 2, 5)), UnpackI32(SubSeq(data, 6, 9))>>)

unpack_payload(data) == json_loads(data)

\* the payloads of the coordinator's messages, with short lists
Payloads ==
    {<<>>}
    \cup {<<<< <<110>>, JsonValue("int", <<n>>)>>>> : n \in {0, 9, 10, 256}}
    \cup {<<<< <<98>>, JsonValue("list", items)>>>> : items \in BitSeqs(MaxItems)}
    \cup {<<<< <<112>>, JsonValue("list", <<0, 12>>)>>, << <<97, 98>>, JsonValue("list", items)>>>> :
            items \in BitSeqs(MaxItems)}
    \cup {<<<< <<115>>, JsonValue("str", <<65>>)>>, << <<99>>, JsonValue("str", text)>>,
            << <<117>>, JsonValue("int", <<8 * Len(text)>>)>>>> : text \in {<<>>, <<97, 102>>}}

\* the sequence numbers: those of _next_sequence and the ends of the signed range
Sequences32 == {(0 - 2147483647) - 1, -1, 0, 1, 42, 256, 2147483647}

PackMessage(msg_type, payload, seq) ==
    /\ wire' = Some([msg_type |-> msg_type, payload |-> payload, seq |-> seq,
                     data |-> pack_message(msg_type, payload, seq)])

wireVars == <<wire>>

----------------------------------------------------------------------------
(* Specifications *)

vars == <<km, last, ops, thr, sim, eve, pc, clr, ev, rx, notified, loc, outcome, entry,
          send_km, recv_km, net, refreshes, mgr_running, rpc, running, connected, send_key_manager,
          recv_key_manager, cleared, typed, sock, sock_state, net_running, recv_loop,
          delivered, wire, sent, shown, hist>>

Init ==
    /\ km = KeyManager
    /\ last = NoCall
    /\ ops = 0
    /\ thr = [t \in Threads |-> NoThread]
    /\ sim = None
    /\ eve = Eve
    /\ pc = [r \in Roles |-> "start"]
    /\ clr = [r \in Roles |-> 0]
    /\ ev = [r \in Roles |-> NoEvents]
    /\ rx = [r \in Roles |-> NoReceived]
    /\ notified = [r \in Roles |-> FALSE]
    /\ loc = [r \in Roles |-> NoLocals]
    /\ outcome = [r \in Roles |-> "none"]
    /\ entry = [r \in Roles |-> None]
    /\ send_km = [r \in Roles |-> KeyManager]
    /\ recv_km = [r \in Roles |-> KeyManager]
    /\ net = [r \in Roles |-> <<>>]
    /\ refreshes = 0
    /\ mgr_running = [r \in Roles |-> TRUE]
    /\ rpc = "start"
    /\ running = TRUE
    /\ connected = TRUE
    /\ send_key_manager = KeyManager
    /\ recv_key_manager = KeyManager
    /\ cleared = {}
    /\ typed = 0
    /\ sock = <<>>
    /\ sock_state = "alive"
    /\ net_running = TRUE
    /\ recv_loop = "reading"
    /\ delivered = <<>>
    /\ wire = None
    /\ sent = [r \in Roles |-> <<>>]
    /\ shown = [r \in Roles |-> <<>>]
    /\ hist = [r \in Roles |-> NoHistory]

\* a step of the foreground of a role inside an exchange function
ExchangeStep ==
    \/ \E role \in Roles : StartExchange(role)
    \/ \E role \in Roles : ClearStep(role)
    \/ AliceSendInit
    \/ \E alice_bits \in [1..INTERACTIVE_NUM_PHOTONS -> Bit],
          alice_bases \in [1..INTERACTIVE_NUM_PHOTONS -> Bases] :
            AlicePrompt(alice_bits, alice_bases)
    \/ AlicePromptCancel
    \/ AliceSendPhotons
    \/ AliceGotBases
    \/ AliceBasesTimeout
    \/ AliceReconcile
    \/ AliceCheckErrors
    \/ AliceSetSendKey
    \/ AliceSetRecvKey
    \/ AliceKeyReady
    \/ AliceSendComplete
    \/ BobGotPhotons
    \/ BobPhotonsTimeout
    \/ BobMeasure
    \/ BobPromptCancel
    \/ BobSendBases
    \/ BobGotKey
    \/ BobKeyTimeout
    \/ BobReadKey
    \/ BobReadRate
    \/ BobSetSendKey
    \/ BobSetRecvKey

Next ==
    /\ \/ ExchangeStep /\ UNCHANGED <<mgr_running, shown>>
       \/ (\E role \in Roles : Refresh(role)) /\ UNCHANGED <<mgr_running, shown>>
       \/ \E role \in Roles : HandleReceivedMessage(role)
    /\ Logged
    /\ UNCHANGED <<keyVars, simVars, runVars, recvVars, wireVars, sent>>

Spec == Init /\ [][Next]_vars

NextKey ==
    /\ \/ \E key_bits \in RawKeys : KmSetKey(key_bits)
       \/ \E num_bits \in Amounts : KmConsumeBits(num_bits)
       \/ KmMarkCompromised
       \/ KmClear
    /\ UNCHANGED <<simVars, chatVars, runVars, recvVars, wireVars, talkVars, hist>>

SpecKey == Init /\ [][NextKey]_vars

NextConsume ==
    /\ \/ \E key_bits \in RawKeys : ConcSetKey(key_bits)
       \/ \E t \in Threads, num_bits \in Amounts : ConsumeCall(t, num_bits)
       \/ \E t \in Threads : ConsumeCheck(t)
       \/ \E t \in Threads : ConsumeTake(t)
       \/ \E t \in Threads : ConsumeLoad(t)
       \/ \E t \in Threads : ConsumeStore(t)
    /\ UNCHANGED <<simVars, chatVars, runVars, recvVars, wireVars, talkVars, hist>>

SpecConsume == Init /\ [][NextConsume]_vars

NextSim ==
    /\ \/ \E num_photons \in 0..MaxSimPhotons, eve_intercept \in BOOLEAN,
             with_instance \in BOOLEAN :
               BB84Simulate(num_photons, eve_intercept, with_instance)
       \/ BB84SimulateLong
    /\ UNCHANGED <<keyVars, chatVars, runVars, recvVars, wireVars, talkVars, hist>>

SpecSim == Init /\ [][NextSim]_vars

\* one exchange with its ends: a role quits, the connection is lost
NextEnd ==
    /\ \/ ExchangeStep /\ UNCHANGED <<mgr_running, connected, shown>>
       \/ (\E role \in Roles : HandleReceivedMessage(role)) /\ UNCHANGED connected
       \/ (\E role \in Roles : Quit(role)) /\ UNCHANGED <<connected, shown>>
       \/ (\E role \in Roles : LoopExit(role)) /\ UNCHANGED <<connected, shown>>
       \/ LinkLost /\ UNCHANGED shown
    /\ UNCHANGED <<keyVars, simVars, recvVars, wireVars, sent, hist>>
    /\ UNCHANGED <<rpc, running, send_key_manager, recv_key_manager, cleared, typed>>

SpecEnd == Init /\ [][NextEnd]_vars

\* chat messages in both directions under one key
NextChat ==
    /\ \/ \E key_bits \in {<<1, 0, 1>>, <<0>>} : EstablishKeys(key_bits)
       \/ \E role \in Roles, text \in ChatTexts : SendChatMessage(role, text)
       \/ (\E role \in Roles : HandleReceivedMessage(role)) /\ UNCHANGED sent
    /\ UNCHANGED <<keyVars, simVars, recvVars, wireVars, runVars, hist>>

SpecChat == Init /\ [][NextChat]_vars

\* one exchange, and chat messages from the roles that are back in the chat loop
NextTalk ==
    /\ \/ ExchangeStep /\ UNCHANGED <<mgr_running, talkVars>>
       \/ (\E role \in Roles : HandleReceivedMessage(role)) /\ UNCHANGED sent
       \/ \E role \in Roles : SendChatMessage(role, <<104>>)
    /\ UNCHANGED <<keyVars, simVars, recvVars, wireVars, runVars, hist>>

SpecTalk == Init /\ [][NextTalk]_vars

NextRun ==
    /\ \/ /\ \/ RunStart
             \/ ExchangeReturns
             \/ \E key_bits \in RawKeys \ {<<>>} : ExchangeEstablishes(key_bits)
             \/ ExchangeRaises
             \/ ExchangeInterrupted
             \/ LoopTest
             \/ TypeRefresh
             \/ TypeOtherCommand
             \/ TypeQuit
             \/ TypeInterrupt
             \/ \E length \in TextLengths : TypeChat(length)
             \/ PeerDisconnected
             \/ ConnectionLost
             \/ Cleanup
          /\ UNCHANGED recvVars
       \/ ReceiveLoopFails
    /\ UNCHANGED <<keyVars, simVars, chatVars, wireVars, talkVars, hist>>

SpecRun == Init /\ [][NextRun]_vars

NextRecv ==
    /\ \/ \E frame \in Frames : PeerWrites(frame)
       \/ ReceiveMessage
       \/ ReadTimeout
       \/ SocketFails
       \/ ReadFatal
       \/ Stop
       \/ LoopStopped
    /\ UNCHANGED <<keyVars, simVars, chatVars, runVars, wireVars, talkVars, hist>>

SpecRecv == Init /\ [][NextRecv]_vars

NextWire ==
    /\ \E msg_type \in MessageTypes, payload \in Payloads, seq \in Sequences32 :
          PackMessage(msg_type, payload, seq)
    /\ UNCHANGED <<keyVars, simVars, chatVars, runVars, recvVars, talkVars, hist>>

SpecWire == Init /\ [][NextWire]_vars

----------------
(* Properties of the key lifecycle manager *)

HasKey == km.current_key # None
Key == km.current_key[1]

\* C5: for a key built from n raw bits, once those n bits have been consumed
\* a further consume(1) raises KeyExhaustedError.
C5_ExhaustedAfterRawBits ==
    ( /\ last.op = "consume"
      /\ last.n = 1
      /\ last.before # None
      /\ last.before[1].seed_length > 0
      /\ last.before[1].bits_used = last.before[1].seed_length )
    => last.raised

\* C6: a key built from n raw bits has length n, and consume(k) on the fresh
\* key returns the first k raw bits and leaves remaining() = n - k.
C6_RawBitsInOrder ==
    /\ HasKey => Key.length = Key.seed_length
    /\ ( /\ last.op = "consume"
         /\ ~last.raised
         /\ last.before # None
         /\ last.before[1].bits_used = 0 )
       => /\ last.ret = SubSeq(last.before[1].seed_bits, 1, last.n)
          /\ remaining(Key) = last.before[1].seed_length - last.n

\* C7: once at least 75% of the number of raw bits passed to set_key has been
\* consumed, needs_rotation() is true.
C7_RotationOnRawSize ==
    ( /\ HasKey
      /\ Key.seed_length > 0
      /\ Key.bits_used * 100 >= 75 * Key.seed_length )
    => needs_rotation(km)

\* C8: needs_rotation() is true exactly when there is no current key or the
\* current key has bits_used * 100 >= 75 * length.
C8_NeedsRotationIff ==
    needs_rotation(km) <=> (~HasKey \/ Key.bits_used * 100 >= 75 * Key.length)

\* a key used to exactly 75% of its length: rotation is due
C8_Witness ==
    /\ HasKey
    /\ Key.bits_used * 4 = 3 * Key.length
    /\ needs_rotation(km)

\* C9: 0 <= bits_used <= length always; a consume(n) that would pass the end
\* raises and leaves bits_used as it was; a successful consume(n) returns the
\* n keystream bits at positions bits_used .. bits_used + n - 1 and advances
\* bits_used by n.
C9_ConsumeContract ==
    /\ HasKey => (0 <= Key.bits_used /\ Key.bits_used <= Key.length)
    /\ (last.op = "consume" /\ last.before # None) =>
         LET b == last.before[1] IN
         IF b.bits_used + last.n > b.length
         THEN last.raised /\ Key.bits_used = b.bits_used
         ELSE /\ ~last.raised
              /\ last.ret = [i \in 1..last.n |-> KeyBits(b)[b.bits_used + i]]
              /\ Key.bits_used = b.bits_used + last.n

\* a successful consume of some bits from the middle of the keystream
C9_Witness ==
    /\ last.op = "consume"
    /\ ~last.raised
    /\ last.n > 0
    /\ last.before # None
    /\ last.before[1].bits_used > 0

\* positions p .. p + n - 1 and q .. q + m - 1 have a position in common
Overlap(r1, r2) ==
    /\ r1[2] > 0
    /\ r2[2] > 0
    /\ r1[1] < r2[1] + r2[2]
    /\ r2[1] < r1[1] + r1[2]

\* C10: two concurrent consume calls never return overlapping keystream
\* positions and bits_used never exceeds length.
C10_ConsumeAtomic ==
    /\ HasKey => Key.bits_used <= Key.length
    /\ (thr[1].ret # None /\ thr[2].ret # None)
         => ~Overlap(thr[1].ret[1], thr[2].ret[1])

----------------------------------------------------------------------------
(* Properties of the local simulation *)

Returned == sim # None /\ ~sim[1].raised

\* C2: without interception bb84_simulate returns error_rate = 0,
\* eavesdropper_detected = false and alice_final_key = bob_final_key.
C2_NoEveNoError ==
    (Returned /\ ~sim[1].eve_active) =>
        /\ sim[1].error_rate[1] = 0
        /\ ~sim[1].eavesdropper_detected
        /\ sim[1].alice_final_key = sim[1].bob_final_key

\* a run without Eve in which Bob measured a wrong bit in a mismatched basis,
\* a position was sampled and a key bit was left
C2_Witness ==
    /\ Returned
    /\ ~sim[1].eve_active
    /\ sim[1].bob_bits # sim[1].alice_bits
    /\ sim[1].sample_positions # <<>>
    /\ sim[1].alice_final_key # <<>>

\* the number of sampled positions at which the two samples differ
Mismatches(r) ==
    Cardinality({k \in 1..Len(r.alice_sample) : r.alice_sample[k] # r.bob_sample[k]})

StrictlyAscending(positions) ==
    \A k \in 1..(Len(positions) - 1) : positions[k] < positions[k + 1]

\* C33: Eve forwards as many photons as she received, the i-th being the
\* encoding of the bit she measured in the basis she drew; what she returns
\* is also in last_bits / last_bases and intercepted_count has grown by the
\* number of photons; the forwarded photon is the original wherever her
\* basis is the sender's, and at a position where Bob's basis is Alice's his
\* bit differs from hers only if Eve's basis differed from Alice's there.
C33_InterceptResend ==
    (Returned /\ sim[1].eve_bits # None) =>
        LET r == sim[1]
            n == Len(r.photons)
            eve_bits == r.eve_bits[1]
            eve_bases == r.eve_bases[1]
        IN  /\ Len(r.transmitted_photons) = n
            /\ Len(eve_bits) = n /\ Len(eve_bases) = n
            /\ \A i \in 1..n :
                  /\ r.transmitted_photons[i] = encode_photon(eve_bits[i], eve_bases[i])
                  /\ eve_bases[i] = r.alice_bases[i] =>
                        r.transmitted_photons[i] = r.photons[i]
                  /\ (r.alice_bases[i] = r.bob_bases[i] /\ r.bob_bits[i] # r.alice_bits[i]) =>
                        eve_bases[i] # r.alice_bases[i]
            /\ eve.last_bits = eve_bits
            /\ eve.last_bases = eve_bases
            /\ eve.intercepted_count = Eve.intercepted_count + n

\* Eve measured a photon in the other basis and Bob, in Alice's basis, read
\* the other bit
C33_Witness ==
    /\ Returned /\ sim[1].eve_bits # None
    /\ eve.intercepted_count = MaxEvePhotons
    /\ \E i \in 1..Len(sim[1].photons) :
          /\ sim[1].eve_bases[1][i] # sim[1].alice_bases[i]
          /\ sim[1].alice_bases[i] = sim[1].bob_bases[i]
          /\ sim[1].bob_bits[i] # sim[1].alice_bits[i]
          /\ sim[1].transmitted_photons[i] # sim[1].photons[i]

\* C26: the final keys are exactly the raw keys' bits at the positions that
\* were not sampled, in their order; the final key length is the number of
\* matching positions minus the number of sample positions.
C26_SampleBitsRemoved ==
    Returned =>
        LET r == sim[1]
            n == Len(r.alice_raw_key)
            kept == Ascending((0..(n - 1))
                        \ {r.sample_positions[k] : k \in 1..Len(r.sample_positions)})
        IN  /\ Len(r.alice_final_key) = Len(kept)
            /\ \A k \in 1..Len(kept) :
                    /\ r.alice_final_key[k] = r.alice_raw_key[kept[k] + 1]
                    /\ r.bob_final_key[k] = r.bob_raw_key[kept[k] + 1]
            /\ Len(r.bob_final_key) = Len(kept)
            /\ r.final_key_length = Len(r.matching_positions) - Len(r.sample_positions)

\* a long run: ten positions sampled out of the middle of the raw key's head,
\* bits kept before and after them
C26_Witness ==
    /\ Returned
    /\ Len(sim[1].sample_positions) > 1
    /\ sim[1].sample_positions[1] > 0
    /\ sim[1].final_key_length = Len(sim[1].alice_raw_key) - Len(sim[1].sample_positions)
    /\ sim[1].alice_raw_key # sim[1].bob_raw_key

\* C27: matching_positions holds exactly the indices at which the two basis
\* lists agree, ascending and each once ([0,1,0,1,1] against [0,0,0,1,1]
\* gives [0,2,3,4]); the raw keys are the bits at those positions, in order.
C27_MatchingPositions ==
    Returned =>
        LET r == sim[1]
            mp == r.matching_positions
        IN  /\ StrictlyAscending(mp)
            /\ \A i \in 0..(Len(r.alice_bases) - 1) :
                    (\E k \in 1..Len(mp) : mp[k] = i)
                        <=> r.alice_bases[i + 1] = r.bob_bases[i + 1]
            /\ \A k \in 1..Len(mp) : mp[k] \in 0..(Len(r.alice_bases) - 1)
            /\ Len(r.alice_raw_key) = Len(mp)
            /\ Len(r.bob_raw_key) = Len(mp)
            /\ \A k \in 1..Len(mp) :
                    /\ r.alice_raw_key[k] = r.alice_bits[mp[k] + 1]
                    /\ r.bob_raw_key[k] = r.bob_bits[mp[k] + 1]
            /\ (r.alice_bases = <<0, 1, 0, 1, 1>> /\ r.bob_bases = <<0, 0, 0, 1, 1>>)
                    => mp = <<0, 2, 3, 4>>

\* the run on the lists of the test
C27_Witness ==
    /\ Returned
    /\ sim[1].alice_bases = <<0, 1, 0, 1, 1>>
    /\ sim[1].bob_bases = <<0, 0, 0, 1, 1>>
    /\ sim[1].alice_raw_key = <<1, 1, 1, 0>>

\* C28: the sample positions are strictly ascending and inside the raw key,
\* max(1, floor(n * fraction)) of them for n >= 1; the samples are the two
\* keys' bits there; error_rate is the number of differing sample bits over
\* the sample size; for n = 0 the sample is empty and error_rate is 0.
C28_CheckErrors ==
    Returned =>
        LET r == sim[1]
            n == Len(r.alice_raw_key)
            sp == r.sample_positions
        IN  /\ StrictlyAscending(sp)
            /\ \A k \in 1..Len(sp) : sp[k] \in 0..(n - 1)
            /\ n >= 1 => Len(sp) = Max(1, (n * SAMPLE_FRACTION_PCT) \div 100)
            /\ Len(r.alice_sample) = Len(sp)
            /\ Len(r.bob_sample) = Len(sp)
            /\ \A k \in 1..Len(sp) :
                    /\ r.alice_sample[k] = r.alice_raw_key[sp[k] + 1]
                    /\ r.bob_sample[k] = r.bob_raw_key[sp[k] + 1]
            /\ n >= 1 => r.error_rate[1] * Len(sp) = Mismatches(r) * r.error_rate[2]
            /\ n = 0 => sp = <<>> /\ r.error_rate[1] = 0

\* a run with more than one sampled position, some of them differing and some
\* not
C28_Witness ==
    /\ Returned
    /\ Len(sim[1].sample_positions) > 1
    /\ Mismatches(sim[1]) > 1
    /\ Mismatches(sim[1]) < Len(sim[1].sample_positions)

C30_MatchingBasisDeterminism ==
    Returned =>
        LET r == sim[1]
        IN  /\ Len(r.photons) = Len(r.alice_bits)
            /\ \A i \in 1..Len(r.photons) :
                    /\ r.photons[i].bit = r.alice_bits[i]
                    /\ r.photons[i].basis = r.alice_bases[i]
                    /\ r.photons[i].angle =
                          (CASE r.alice_bits[i] = 0 /\ r.alice_bases[i] = RECTILINEAR -> 0
                             [] r.alice_bits[i] = 1 /\ r.alice_bases[i] = RECTILINEAR -> 90
                             [] r.alice_bits[i] = 0 /\ r.alice_bases[i] = DIAGONAL -> 45
                             [] r.alice_bits[i] = 1 /\ r.alice_bases[i] = DIAGONAL -> 135)
                    /\ r.bob_bits[i] \in {0, 1}
                    /\ r.transmitted_photons[i].basis = r.bob_bases[i]
                            => r.bob_bits[i] = r.transmitted_photons[i].bit
                    /\ r.eve_bits # None =>
                          /\ r.eve_bits[1][i] \in {0, 1}
                          /\ r.photons[i].basis = r.eve_bases[1][i]
                                => r.eve_bits[1][i] = r.photons[i].bit
            /\ r.eve_bits = None => r.transmitted_photons = r.photons

\* a run with all four encodings in which Eve and Bob each measured in a
\* matching and in a different basis
C30_Witness ==
    /\ Returned
    /\ {<<sim[1].photons[i].bit, sim[1].photons[i].basis>> : i \in 1..Len(sim[1].photons)}
            = {0, 1} \X {RECTILINEAR, DIAGONAL}
    /\ sim[1].eve_bits # None
    /\ \E i \in 1..Len(sim[1].photons) :
            sim[1].eve_bases[1][i] # sim[1].photons[i].basis
    /\ \E i \in 1..Len(sim[1].photons) :
            sim[1].bob_bases[i] # sim[1].transmitted_photons[i].basis
    /\ \E i \in 1..Len(sim[1].photons) :
            sim[1].bob_bases[i] = sim[1].transmitted_photons[i].basis

(* Properties of the key lifecycle (SpecKey) *)

AllZero(bits) == \A i \in 1..Len(bits) : bits[i] = 0

\* C11: after clear() the manager holds no key, and the key object it held
\* shows only zeros, in its keystream (bits) and in its seed_bits.
C11_ClearLeavesNoBits ==
    (last.op = "clear" /\ last.released # None) =>
        /\ get_key(km) = None
        /\ AllZero(KeyBits(last.released[1]))
        /\ AllZero(last.released[1].seed_bits)

\* C12: mark_compromised() leaves no current key and adds exactly 1 to
\* keys_compromised; while there is no key every consume_bits raises and
\* changes nothing; only set_key brings a key back.
C12_CompromisedInvalidates ==
    [][ /\ (last'.op = "mark_compromised" /\ ops' = ops + 1) =>
              /\ km'.current_key = None
              /\ km'.keys_compromised = km.keys_compromised + 1
        /\ (last'.op = "consume" /\ ops' = ops + 1 /\ km.current_key = None) =>
              /\ last'.raised
              /\ km' = km
        /\ (km.current_key = None /\ km'.current_key # None) =>
              last'.op = "set_key" ]_keyVars

\* a consume_bits that raised on a manager whose key was marked compromised
C12_Witness ==
    /\ last.op = "consume"
    /\ last.raised
    /\ last.n > 0
    /\ km.keys_generated > 0
    /\ km.keys_compromised > 0
    /\ km.current_key = None

\* C13: a key taken out of the manager by mark_compromised() or replaced by
\* set_key() holds only zero key bits afterwards.
C13_DestroyedOnDrop ==
    (last.op \in {"mark_compromised", "set_key"} /\ last.released # None) =>
        AllZero(KeyBits(last.released[1]))

\* C14: every set_key adds 1 to keys_generated and installs a fresh key; with
\* a key held it appends exactly one history entry carrying that key's id,
\* length, bits_used, generated_at and error_rate and nothing else; with no
\* key held the history is unchanged.
C14_SetKeyArchives ==
    [][ (last'.op = "set_key" /\ ops' = ops + 1) =>
          /\ km'.keys_generated = km.keys_generated + 1
          /\ km'.current_key # None
          /\ km'.current_key[1].bits_used = 0
          /\ km'.current_key[1].seed_length = last'.n
          /\ km'.keys_compromised = km.keys_compromised
          /\ IF km.current_key = None
             THEN km'.key_history = km.key_history
             ELSE LET old == km.current_key[1] IN
                  km'.key_history =
                       Append(km.key_history,
                              [ id           |-> old.id,
                                length       |-> old.length,
                                bits_used    |-> old.bits_used,
                                generated_at |-> old.generated_at,
                                error_rate   |-> old.error_rate ]) ]_keyVars

\* a partly used key has been replaced and archived
C14_Witness ==
    /\ last.op = "set_key"
    /\ last.before # None
    /\ last.before[1].bits_used > 0
    /\ Len(km.key_history) = 1
    /\ km.key_history[1].bits_used = last.before[1].bits_used

\* C15: the history stays below a fixed bound however many set_key calls are
\* made; stated for the bound that the call budget of the model would exceed.
C15_HistoryBounded == Len(km.key_history) < MaxOps - 1


(* Properties of the interactive exchange (Spec) *)

\* a key manager holds a key expanded from these raw bits
Holds(m, raw) == m.current_key # None /\ m.current_key[1].seed_bits = raw

\* the exchange function of the role is not running
AtRest(role) == pc[role] = "chat"

\* C1: key agreement.  Once Alice's exchange has installed a key, every
\* message in flight has been handled and Bob's exchange function has
\* returned, Bob's send and receive key managers hold the key with the
\* same raw bits as Alice's.
C1_KeyAgreement ==
    ( /\ AtRest("Alice")
      /\ outcome["Alice"] = "established"
      /\ AtRest("Bob")
      /\ net["Alice"] = <<>>
      /\ net["Bob"] = <<>> )
    => /\ Holds(send_km["Bob"], send_km["Alice"].current_key[1].seed_bits)
       /\ Holds(recv_km["Bob"], recv_km["Alice"].current_key[1].seed_bits)

\* Alice has passed the error check and installed her key, and her locals
\* are still in scope
AliceEstablished == pc["Alice"] \in {"key_ready", "send_complete"}

\* Bob waits for the outcome of the reconciliation of the bases he measured in
BobAwaitsOutcomeOf(bob_bases) ==
    /\ pc["Bob"] = "wait_key"
    /\ loc["Bob"].bob_bases = bob_bases

\* mismatches between Bob's measured bits and Alice's bits at the sampled
\* positions of the sifted key
SampleMismatches ==
    LET bob_raw_key == extract_key_bits(loc["Bob"].bob_bits,
                                        loc["Alice"].matching_positions)
    IN  CountDiff(extract_key_bits(loc["Alice"].alice_raw_key,
                                   loc["Alice"].sample_positions),
                  extract_key_bits(bob_raw_key, loc["Alice"].sample_positions))

\* C3: when Alice's exchange establishes a key, the error rate it decided on
\* is the number of sampled positions where Bob's measured bit differs from
\* hers over the sample size, and that rate is not above 10%.
C3_ErrorRateFromBob ==
    ( /\ AliceEstablished
      /\ BobAwaitsOutcomeOf(loc["Alice"].bob_bases) )
    => LET n == Len(loc["Alice"].sample_positions)
       IN  /\ loc["Alice"].error_rate[1] * n = SampleMismatches * loc["Alice"].error_rate[2]
           /\ SampleMismatches * 100 <= ERROR_THRESHOLD_PCT * n

\* C4: no key manager of either peer ever holds a key made from fewer than
\* MIN_KEY_LENGTH final-key bits.
C4_NoShortKey ==
    \A role \in Roles :
        /\ send_km[role].current_key # None
            => send_km[role].current_key[1].seed_length >= MIN_KEY_LENGTH
        /\ recv_km[role].current_key # None
            => recv_km[role].current_key[1].seed_length >= MIN_KEY_LENGTH

\* the role is blocked in Event.wait and nothing has woken it
Waits == {"wait_bases", "wait_photons", "wait_key"}

Awaited(role) ==
    CASE pc[role] = "wait_bases"   -> ev[role].bases_received
      [] pc[role] = "wait_photons" -> ev[role].photons_received
      [] pc[role] = "wait_key"     -> ev[role].key_ready
      [] OTHER -> FALSE

Expired(role) == pc[role] \in Waits /\ ~Awaited(role) /\ ~notified[role]

\* the exchange function of the role returns with an error in this step
ErrorReturn(role) ==
    /\ pc[role] # "chat"
    /\ pc'[role] = "chat"
    /\ outcome'[role] \in {"timeout", "too_short", "send_failed"}

\* C17: an exchange function that returns with an error leaves both key
\* managers of the role as they were when the function was entered.
C17_ErrorLeavesManagers ==
    [][ \A role \in Roles :
          ErrorReturn(role) =>
              /\ entry[role] # None
              /\ send_km'[role] = entry[role][1][1]
              /\ recv_km'[role] = entry[role][1][2] ]_vars

\* C18: a wait that expires ends the exchange function with a timeout error
\* and sends nothing; a blocked role sends nothing; after the return only a
\* /refresh typed by the user sends a message or starts another exchange.
C18_TimeoutNoRetry ==
    [][ \A role \in Roles :
          /\ (Expired(role) /\ pc'[role] # pc[role]) =>
                /\ pc'[role] = "chat"
                /\ outcome'[role] = "timeout"
                /\ net'[Other(role)] = net[Other(role)]
                /\ send_km'[role] = send_km[role]
                /\ recv_km'[role] = recv_km[role]
          /\ pc[role] \in Waits => Len(net'[Other(role)]) <= Len(net[Other(role)])
          /\ (pc[role] = "chat" /\ outcome[role] = "timeout") =>
                /\ pc'[role] # "chat" => refreshes' = refreshes + 1
                /\ Len(net'[Other(role)]) > Len(net[Other(role)]) =>
                      /\ refreshes' = refreshes + 1
                      /\ net'[Other(role)][Len(net'[Other(role)])].type = MSG_KEY_ROTATE ]_vars

\* each of the three waits has expired in some exchange and the role is back
\* in the chat loop
C18_Witness ==
    /\ pc["Alice"] = "chat"
    /\ outcome["Alice"] = "timeout"
    /\ pc["Bob"] = "chat"
    /\ outcome["Bob"] = "timeout"
    /\ refreshes = MaxRefresh

\* the step sends a message of that type to the peer
Sends(role, type) ==
    /\ Len(net'[Other(role)]) > Len(net[Other(role)])
    /\ net'[Other(role)][Len(net'[Other(role)])].type = type

SentTypes(role) == {hist[role].sent[i] : i \in 1..Len(hist[role].sent)}

\* C34: within one exchange Alice sends the photon batch after the
\* exchange-init, the match positions only after her receive thread handled
\* a basis batch, and the key-complete only after the match positions and
\* with the key installed in both of her managers; Bob sends his basis batch
\* only after a photon batch was handled, and a key is installed at Bob only
\* after a key-complete was handled.
C34_MessageOrder ==
    [][ /\ Sends("Alice", MSG_BB84_PHOTONS) => MSG_BB84_INIT \in SentTypes("Alice")
        /\ Sends("Alice", MSG_BB84_MATCHES) =>
              /\ MSG_BB84_PHOTONS \in SentTypes("Alice")
              /\ MSG_BB84_BASES \in hist["Alice"].got
        /\ Sends("Alice", MSG_BB84_COMPLETE) =>
              /\ MSG_BB84_MATCHES \in SentTypes("Alice")
              /\ Holds(send_km["Alice"], net'["Bob"][Len(net'["Bob"])].payload.key)
              /\ Holds(recv_km["Alice"], net'["Bob"][Len(net'["Bob"])].payload.key)
        /\ Sends("Bob", MSG_BB84_BASES) => MSG_BB84_PHOTONS \in hist["Bob"].got
        /\ (\/ send_km'["Bob"].keys_generated > send_km["Bob"].keys_generated
            \/ recv_km'["Bob"].keys_generated > recv_km["Bob"].keys_generated) =>
              MSG_BB84_COMPLETE \in hist'["Bob"].got ]_vars

\* both exchange functions ran to their end: the four messages of Alice were
\* sent in order and Bob's foreground installed the key
C34_Witness ==
    /\ hist["Alice"].sent = <<MSG_BB84_INIT, MSG_BB84_PHOTONS, MSG_BB84_MATCHES, MSG_BB84_COMPLETE>>
    /\ hist["Bob"].sent = <<MSG_BB84_BASES>>
    /\ outcome["Bob"] = "established"
    /\ outcome["Alice"] = "established"

\* C35: a photon batch that Bob's receive thread handled before his
\* foreground entered interactive_key_exchange_bob is used by the exchange
\* that follows: unless Bob cancels his prompt, that exchange does not end
\* before it has sent the basis batch.
C35_EarlyPhotonsUsed ==
    [][ (/\ ~Outside("Bob")
         /\ pc'["Bob"] \in {"chat", "crashed"}
         /\ hist["Bob"].early
         /\ outcome'["Bob"] # "cancelled") =>
            MSG_BB84_BASES \in SentTypes("Bob") ]_vars

\* C36: when Alice reconciles (she sends the match positions), the photon
\* batch of her exchange is not still in flight to Bob: the basis list she
\* uses was sent after Bob had that batch.
C36_BasesOfThisExchange ==
    [][ Sends("Alice", MSG_BB84_MATCHES) =>
            \A i \in 1..Len(net["Bob"]) : net["Bob"][i].type # MSG_BB84_PHOTONS ]_vars

\* C40: when the final key is empty Alice's exchange returns with both key
\* managers as they were at entry and without sending key-complete or
\* anything else; an exchange function is entered only from run() at
\* start-up or by a /refresh, so the entries of a role never exceed 1 plus
\* the number of /refresh commands.
C40_TooShortNoRetry ==
    [][ /\ (pc["Alice"] = "check" /\ pc'["Alice"] \notin {"check", "set_send"}) =>
              /\ pc'["Alice"] = "chat"
              /\ outcome'["Alice"] = "too_short"
              /\ send_km'["Alice"] = entry["Alice"][1][1]
              /\ recv_km'["Alice"] = entry["Alice"][1][2]
              /\ net'["Bob"] = net["Bob"]
              /\ MSG_BB84_COMPLETE \notin SentTypes("Alice")
        /\ \A role \in Roles :
              /\ hist'[role].attempts > hist[role].attempts =>
                    pc[role] = "start" \/ refreshes' = refreshes + 1
              /\ hist'[role].attempts <= 1 + refreshes' ]_vars

\* the exchange that a /refresh started ended with an empty final key
C40_Witness ==
    /\ pc["Alice"] = "chat"
    /\ outcome["Alice"] = "too_short"
    /\ hist["Alice"].attempts = 1 + MaxRefresh
    /\ MSG_BB84_MATCHES \in SentTypes("Alice")
    /\ send_km["Alice"].keys_generated = 0

\* C22: when the receive thread handles the peer's MSG_DISCONNECT while the
\* foreground is blocked in a wait for bases, photons or the key, the wait is
\* woken: it can end at once and need not run to its timeout.
C22_DisconnectEndsWait ==
    [][ \A role \in Roles :
          (/\ net[role] # <<>>
           /\ net'[role] = Tail(net[role])
           /\ Head(net[role]).type = MSG_DISCONNECT
           /\ pc[role] \in Waits
           /\ ~Awaited(role)
           /\ ~notified[role]) =>
              notified'[role] \/ pc'[role] \notin Waits ]_vars

\* C23: the receive thread of a role handles no message between the two
\* set_key calls of the role's exchange function, when the send key manager
\* holds the new key and the receive key manager does not yet.
C23_NoHalfInstalledKey ==
    [][ \A role \in Roles :
          (net[role] # <<>> /\ net'[role] = Tail(net[role])) => pc[role] # "set_recv" ]_vars

\* C24: a send of an exchange message (INIT, PHOTONS, MATCHES, COMPLETE) that
\* raises ends the exchange function there, and the sender's key managers
\* hold what they held when the function was entered.
C24_SendErrorEndsExchange ==
    [][ \A role \in Roles :
          (/\ ~connected
           /\ \/ pc[role] \in {"send_init", "send_photons", "send_complete"}
              \/ pc[role] = "reconcile" /\ rx[role].bases # None
           /\ pc'[role] # pc[role]) =>
              /\ pc'[role] \in {"chat", "crashed"}
              /\ outcome'[role] # "established"
              /\ entry[role] # None
              /\ send_km'[role] = entry[role][1][1]
              /\ recv_km'[role] = entry[role][1][2] ]_vars

\* a message type that the role's exchange is not waiting for
Unexpected(role, type) ==
    \/ type = MSG_BB84_BASES /\ pc[role] # "wait_bases"
    \/ type = MSG_BB84_COMPLETE /\ pc[role] # "wait_key"

\* C19: handling a basis batch while the role does not await bases, or a
\* key-complete while it does not await a key, changes neither the received
\* data, nor the events, nor a key manager of the role.
C19_UnexpectedIgnored ==
    [][ \A role \in Roles :
          ( /\ net[role] # <<>>
            /\ net'[role] = Tail(net[role])
            /\ Unexpected(role, Head(net[role]).type) )
          => /\ ev'[role] = ev[role]
             /\ rx'[role] = rx[role]
             /\ send_km'[role] = send_km[role]
             /\ recv_km'[role] = recv_km[role] ]_vars

(* Properties of the run and of the receive loop (SpecRun, SpecRecv) *)

\* C16: when the process ends, however run() stopped, clear() has been called
\* on the send and on the receive key manager and neither still holds a key.
C16_KeysClearedOnShutdown ==
    rpc \in {"ended", "fatal"} =>
        /\ send_key_manager.keys_generated > 0 =>
                "send" \in cleared /\ get_key(send_key_manager) = None
        /\ recv_key_manager.keys_generated > 0 =>
                "recv" \in cleared /\ get_key(recv_key_manager) = None

\* C21: once the receive loop has ended on a fatal socket error the session
\* is over: no chat message is encrypted any more, that is, no bit of the
\* send key is consumed.
C21_FatalErrorEndsSession ==
    [][ (/\ recv_loop = "fatal"
         /\ get_key(send_key_manager) # None
         /\ get_key(send_key_manager') # None) =>
            get_key(send_key_manager')[1].bits_used
                = get_key(send_key_manager)[1].bits_used ]_vars

\* C25: a frame that violates the protocol is dropped and nothing else
\* happens: no frame is dispatched whose sequence number is not above those
\* dispatched before it, and the loop does not end on a malformed frame.
C25_ViolationDropsMessage ==
    /\ \A j \in 1..Len(delivered) : \A i \in 1..(j - 1) :
            delivered[i].seq < delivered[j].seq
    /\ recv_loop # "violation"

\* C20: while the connection is alive and stop() has not been called, the
\* receive loop is still reading: a read timeout does not end it.
C20_LoopSurvivesTimeout ==
    sock_state = "alive" => Reading

----------------------------------------------------------------------------
(* Properties of the wire format (SpecWire) *)

\* C31: the first HEADER_SIZE = 9 bytes of a packed message unpack to its
\* type, the number of bytes that follow them and its sequence number, and
\* those following bytes unpack to a payload equal to the one packed.
C31_WireRoundTrip ==
    wire # None =>
        LET w == wire[1]
            header == unpack_header(SubSeq(w.data, 1, HEADER_SIZE))
        IN  /\ header # None
            /\ header[1] = <<w.msg_type, Len(w.data) - HEADER_SIZE, w.seq>>
            /\ unpack_header(w.data) = header
            /\ \A i \in 1..Len(w.data) : w.data[i] \in 0..255
            /\ unpack_payload(SubSeq(w.data, HEADER_SIZE + 1, HEADER_SIZE + header[1][2])) = w.payload

\* a negative sequence number and a payload of two keys are on the wire
C31_Witness ==
    /\ wire # None
    /\ wire[1].seq < 0
    /\ Len(wire[1].payload) = 2
    /\ unpack_payload(SubSeq(wire[1].data, HEADER_SIZE + 1, Len(wire[1].data))) = wire[1].payload
    /\ unpack_header(wire[1].data)[1][3] = wire[1].seq

----------------------------------------------------------------------------
(* Properties of the chat messages (SpecChat, SpecTalk) *)

\* messages of 8-bit characters: the empty one, both ends of the range, a
\* line that needs every bit of a fresh keystream
Texts8 == { <<>>, <<0, 255>>, <<104, 233, 10>>, [i \in 1..(EXPANDED_KEY_BITS \div 8) |-> 255 - i] }

\* the sending manager of one role and the receiving manager of the other
\* hold a key of the same raw bits at the same cursor
InStep(role) ==
    /\ get_key(send_km[role]) # None
    /\ get_key(recv_km[Other(role)]) # None
    /\ get_key(send_km[role])[1].seed_bits = get_key(recv_km[Other(role)])[1].seed_bits
    /\ get_key(send_km[role])[1].bits_used = get_key(recv_km[Other(role)])[1].bits_used

\* C32: for two key managers set from the same raw bits and at the same
\* cursor, decrypting with the second what the first encrypted gives the
\* message back, for every message of 8-bit characters that fits in the
\* rest of the key, and both cursors advance by 8 bits per character.
C32_EncryptDecryptRoundTrip ==
    \A role \in Roles : InStep(role) =>
        \A m \in Texts8 :
            8 * Len(m) <= remaining(get_key(send_km[role])[1]) =>
                LET enc == encrypt_message(m, send_km[role])
                    dec == decrypt_message(enc.ciphertext, recv_km[Other(role)])
                    cursor == get_key(send_km[role])[1].bits_used
                IN  /\ ~enc.raised
                    /\ ~dec.raised
                    /\ dec.plaintext = m
                    /\ get_key(enc.after)[1].bits_used = cursor + 8 * Len(m)
                    /\ get_key(dec.after)[1].bits_used = cursor + 8 * Len(m)

\* both managers are past the start of the key and a message still fits
C32_Witness ==
    /\ InStep("Alice")
    /\ get_key(send_km["Alice"])[1].bits_used > 0
    /\ remaining(get_key(send_km["Alice"])[1]) >= 24
    /\ decrypt_message(encrypt_message(<<104, 233, 10>>, send_km["Alice"]).ciphertext,
                       recv_km["Bob"]).plaintext = <<104, 233, 10>>

\* the chat messages of a role that went out on the connection, in order
Transmitted(role) == SelectSeq(sent[role], LAMBDA m : m.status = "sent")

\* C37: a chat message of Alice that Bob's receive thread handles after it
\* handled the key-complete of the running exchange, while Bob's foreground
\* is still inside interactive_key_exchange_bob, is decrypted with the key
\* Alice encrypted it with and shown as the text she sent.
C37_ChatAfterCompleteUsesNewKey ==
    [][ (/\ net["Bob"] # <<>>
         /\ net'["Bob"] = Tail(net["Bob"])
         /\ Head(net["Bob"]).type = MSG_CHAT
         /\ ev["Bob"].key_ready
         /\ outcome["Bob"] = "running") =>
            LET k == Len(shown'["Bob"])
                line == shown'["Bob"][k]
            IN  /\ line.status = "ok"
                /\ line.seed = Transmitted("Alice")[k].seed
                /\ line.text = Transmitted("Alice")[k].text ]_vars

\* all chat messages of the role were handled by the peer: the peer's
\* receive cursor equals the role's send cursor and the peer was shown the
\* texts the role sent, in order
Delivered(role) ==
    (/\ net[Other(role)] = <<>>
     /\ get_key(send_km[role]) # None
     /\ get_key(recv_km[Other(role)]) # None) =>
        /\ get_key(recv_km[Other(role)])[1].bits_used = get_key(send_km[role])[1].bits_used
        /\ Len(shown[Other(role)]) = Len(Transmitted(role))
        /\ \A i \in 1..Len(shown[Other(role)]) :
              /\ shown[Other(role)][i].status = "ok"
              /\ shown[Other(role)][i].text = Transmitted(role)[i].text

\* C38: under one established key and in-order delivery, once every chat
\* message a peer sent is delivered the other peer's receive cursor equals
\* the sender's send cursor and every message was shown as the text that
\* was sent; a send that is refused leaves the send key manager and the
\* connection as they were.
C38_CursorsInStep ==
    [][ \A role \in Roles :
          /\ Delivered(role)'
          /\ (/\ Len(sent'[role]) > Len(sent[role])
              /\ sent'[role][Len(sent'[role])].status # "sent") =>
                 /\ send_km' = send_km
                 /\ net' = net ]_vars

\* C39: no two different chat messages that went out under keys of the same
\* raw bits, whether from the same role or one from each role, were
\* encrypted with a common position of the keystream.
C39_PadSingleUse ==
    \A r1 \in Roles, r2 \in Roles :
        \A i \in 1..Len(Transmitted(r1)), j \in 1..Len(Transmitted(r2)) :
            LET m1 == Transmitted(r1)[i]
                m2 == Transmitted(r2)[j]
            IN  (<<r1, i>> # <<r2, j>> /\ m1.seed = m2.seed) =>
                    \/ m1.first + m1.bits <= m2.first
                    \/ m2.first + m2.bits <= m1.first

====
